---- MODULE Spec2Model ----
(***************************************************************************)
(* Host side of the STM32 ROM bootloader protocol (stm32.cpp): framing,    *)
(* acknowledgement wait, resync, session establishment and the memory      *)
(* operations.  One step of the model is one port transfer (a write or a   *)
(* read) together with the code around it; function calls are kept on a    *)
(* stack of continuation labels and results are passed back in rv.         *)
(***************************************************************************)
EXTENDS Integers, Sequences, FiniteSets, TLC

\* ---------------------------------------------------------------- bounds
\* replies and transfers off the expected course that one call may meet
MaxDev == 1
\* opcodes a GET reply may carry after its fixed leading part
MaxGetTail == 2
\* longest of the short payloads read and written
MaxData == 5
MaxCrcWords == 2
\* entries of a page-size table before its closing 0
MaxPsLen == 2
\* bytes of flash of the devices the page helpers are tried on
MaxFlash == 9
\* bytes asked of one serial_read
MaxRead == 3
\* the greatest count given with -n
MaxRetry == 2
\* bytes the device sends on the serial line
MaxSent == 2

\* ------------------------------------------------------ protocol constants
STM32_ACK == 121
STM32_NACK == 31
STM32_BUSY == 118
STM32_CMD_INIT == 127
STM32_CMD_GET == 0
STM32_CMD_GVR == 1
STM32_CMD_GID == 2
STM32_CMD_RM == 17
STM32_CMD_GO == 33
STM32_CMD_WM == 49
STM32_CMD_WM_NS == 50
STM32_CMD_ER == 67
STM32_CMD_EE == 68
STM32_CMD_EE_NS == 69
STM32_CMD_WP == 99
STM32_CMD_WP_NS == 100
STM32_CMD_UW == 115
STM32_CMD_UW_NS == 116
STM32_CMD_RP == 130
STM32_CMD_RP_NS == 131
STM32_CMD_UR == 146
STM32_CMD_UR_NS == 147
STM32_CMD_CRC == 161
STM32_CMD_ERR == 255
STM32_RESYNC_TIMEOUT == 35
STM32_MASSERASE_TIMEOUT == 35
STM32_PAGEERASE_TIMEOUT == 5
STM32_BLKWRITE_TIMEOUT == 1
STM32_WUNPROT_TIMEOUT == 1
STM32_WPROT_TIMEOUT == 1
STM32_RPROT_TIMEOUT == 1
STM32_CMD_GET_LENGTH == 17
\* serial_read waits 2000 ms for a reply; time() counts whole seconds
ReadTimeoutSecs == 2

\* ------------------------------------------------------- byte arithmetic
Byte == 0..255

\* bit k of a ^ b in its place, k a power of 2
XorBit(a, b, k) == ((((a \div k) % 2) + ((b \div k) % 2)) % 2) * k
\* a ^ b on uint8_t
Xor(a, b) ==
    XorBit(a, b, 1) + XorBit(a, b, 2) + XorBit(a, b, 4) + XorBit(a, b, 8)
    + XorBit(a, b, 16) + XorBit(a, b, 32) + XorBit(a, b, 64) + XorBit(a, b, 128)

\* XOR of s[lo..hi], folded by halves
RECURSIVE XorRange(_, _, _)
XorRange(s, lo, hi) ==
    IF lo > hi THEN 0
    ELSE IF lo = hi THEN s[lo]
    ELSE LET mid == (lo + hi) \div 2
         IN Xor(XorRange(s, lo, mid), XorRange(s, mid + 1, hi))

XorSeq(s) == XorRange(s, 1, Len(s))

U8(x) == x % 256
Shr(x, k) == x \div (2 ^ k)

Take(s, n) == SubSeq(s, 1, IF n < Len(s) THEN n ELSE Len(s))
Fill(n, v) == [i \in 1..n |-> v]

\* ------------------------------------------------------------- the state
VARIABLES
    port,    \* the transport: [flags, cmd_get_reply]
    heap,    \* the session object and its command map: none/allocated/freed
    stm,     \* fields of stm32_t, cmd is the negotiated command map
    call,    \* the public operation in progress and its arguments
    stack,   \* continuation labels, innermost first; <<>> when no call runs
    rv,      \* value returned by the function that returned last
    res,     \* value the public operation returned, "none" before
    wire,    \* every port->write and port->read so far, in order
    now,     \* wall clock, seconds
    ack,     \* locals of stm32_get_ack_timeout: [tmo, t0]
    gl,      \* locals of stm32_guess_len_cmd: [cmd, len]
    rs,      \* locals of stm32_resync: [t0]
    buf,     \* the reply buffer of stm32_init / the frame under construction
    out,     \* out parameters: data read; crc, a number from the device and
             \* 4 bytes, most significant first, from stm32_sw_crc
    device,  \* what the device answers to GVR, GET and GID, once it has
    off,     \* transfers off the expected course so far
    main,    \* stm32main: its options, its locals and where it stands
    serial   \* the SerialPort object, its reader thread, the bytes on its
             \* file descriptor and who read them

vars == <<port, heap, stm, call, stack, rv, res, wire, now, ack, gl, rs, buf, out,
          device, off, main, serial>>

\* --------------------------------------------------------------- the port
SerialFlags == {"BYTE", "GVR_ETX", "CMD_INIT", "RETRY"}
FrameFlags == {"STRETCH_W"}

WEvent(bytes, st) == [k |-> "W", n |-> Len(bytes), b |-> bytes, st |-> st]
REvent(n, bytes, st) == [k |-> "R", n |-> n, b |-> bytes, st |-> st]

WriteStatus == {"OK", "ERR"}
ReadStatus == {"OK", "TIMEDOUT", "ERR"}
\* bytes a device may answer where an acknowledgement is expected
AckBytes == {STM32_ACK, STM32_NACK, STM32_BUSY, 0}

Push(f, s) == <<f>> \o s
Top == IF stack = <<>> THEN "idle" ELSE Head(stack)
Rest == Tail(stack)

\* ------------------------------------------------------- sessions, inputs
F_NO_ME == "F_NO_ME"

\* the device catalog (dev_table), closed by an entry with id 0
devices ==
    << [id |-> 1040, flags |-> {}, fl_start |-> 134217728, fl_end |-> 134221824,
        fl_ps |-> <<1024, 0>>, ram_start |-> 536871424],
       [id |-> 1046, flags |-> {F_NO_ME}, fl_start |-> 134217728, fl_end |-> 134218752,
        fl_ps |-> <<256, 0>>, ram_start |-> 536872960],
       [id |-> 0, flags |-> {}, fl_start |-> 0, fl_end |-> 0,
        fl_ps |-> <<0>>, ram_start |-> 0] >>

STM32_MAX_PAGES == 65535
STM32_MASS_ERASE == 1048576

CmdNone ==
    [get |-> STM32_CMD_ERR, gvr |-> STM32_CMD_ERR, gid |-> STM32_CMD_ERR,
     rm |-> STM32_CMD_ERR, go |-> STM32_CMD_ERR, wm |-> STM32_CMD_ERR,
     er |-> STM32_CMD_ERR, wp |-> STM32_CMD_ERR, uw |-> STM32_CMD_ERR,
     rp |-> STM32_CMD_ERR, ur |-> STM32_CMD_ERR, crc |-> STM32_CMD_ERR]

CmdMin ==
    [CmdNone EXCEPT !.get = STM32_CMD_GET, !.gvr = STM32_CMD_GVR,
                    !.gid = STM32_CMD_GID]

CmdLegacy ==
    [CmdMin EXCEPT !.rm = STM32_CMD_RM, !.go = STM32_CMD_GO,
                   !.wm = STM32_CMD_WM, !.er = STM32_CMD_ER,
                   !.wp = STM32_CMD_WP, !.uw = STM32_CMD_UW,
                   !.rp = STM32_CMD_RP, !.ur = STM32_CMD_UR]

CmdExt ==
    [CmdMin EXCEPT !.rm = STM32_CMD_RM, !.go = STM32_CMD_GO,
                   !.wm = STM32_CMD_WM_NS, !.er = STM32_CMD_EE,
                   !.wp = STM32_CMD_WP_NS, !.uw = STM32_CMD_UW_NS,
                   !.rp = STM32_CMD_RP_NS, !.ur = STM32_CMD_UR_NS,
                   !.crc = STM32_CMD_CRC]

\* the object calloc returns, with the command map memset to 0xFF
StmFresh ==
    [cmd |-> CmdNone, version |-> 0, option1 |-> 0, option2 |-> 0,
     bl_version |-> 0, pid |-> 0, dev |-> 0]

\* sessions stm32_init can have returned
Sessions ==
    { [StmFresh EXCEPT !.cmd = c, !.version = 34, !.bl_version = 34,
                       !.pid = devices[d].id, !.dev = d] :
        c \in {CmdMin, CmdLegacy, CmdExt}, d \in {1} }
    \cup { [StmFresh EXCEPT !.cmd = c, !.version = 34, !.bl_version = 34,
                            !.pid = devices[2].id, !.dev = 2] :
             c \in {CmdLegacy, CmdExt} }

\* the serial port, and a frame port with and without a table of GET lengths
Ports ==
    { [flags |-> SerialFlags, cmd_get_reply |-> <<>>],
      [flags |-> FrameFlags, cmd_get_reply |-> <<>>],
      [flags |-> FrameFlags, cmd_get_reply |-> <<[version |-> 34, length |-> 11]>>] }

Pat(n) == [i \in 1..n |-> (i * 37 + 11) % 256]
\* flash base, two addresses with four different bytes, the top of the range
\* TLC's integers hold (addresses are below 2^31)
Addrs == {134217728, 305419896, 305419897, 2147483646}
DataLens == (0..MaxData) \cup {255, 256, 257}
WriteData == {Pat(n) : n \in DataLens} \cup {<<222, 173, 190, 239>>, <<1, 2, 3>>}

\* page ranges asked of stm32_erase_memory: <<spage, pages>>
EraseArgs ==
    { <<0, 0>>, <<0, 1>>, <<1, 2>>, <<0, STM32_MASS_ERASE>>, <<1, STM32_MASS_ERASE>>,
      <<3, 512>>, <<2, 513>>, <<0, 1025>>,
      <<STM32_MAX_PAGES, 2>>, <<STM32_MAX_PAGES + 1, 1>> }
CrcLens == {0, 4, 6, 256}
\* lengths asked of stm32_crc_wrapper: up to three chunks
WrapLens == {0, 6, 8, 260, 516}
\* replies to the CRC command: a value with its checksum, and a damaged one
CrcReplies == {<<18, 52, 86, 120, 8>>, <<18, 52, 86, 120, 9>>}

\* args keeps the arguments as passed where the code changes its parameters
NoCall ==
    [op |-> "none", address |-> 0, len |-> 0, data |-> <<>>, spage |-> 0, pages |-> 0,
     args |-> <<>>, length |-> 0, crc |-> <<0, 0, 0, 0>>]
AckIdle == [timeout |-> 0, tmo |-> 0, t0 |-> 0]
GlIdle == [cmd |-> 0, len |-> 0]
DeviceIdle == [gvr |-> <<>>, get |-> <<>>, gid |-> <<>>]
RsIdle == [t0 |-> 0]
\* retry as init_options sets it
DefaultRetry == 10
\* the write branch of stm32main: verify and retry, the frame sizes of -F,
\* the bytes of the input file, the locals of the branch, and log, the
\* calls of stm32_write_memory so far as <<addr, data>>
WriteIdle ==
    [verify |-> 0, retry |-> DefaultRetry, rx |-> 0, tx |-> 0, file |-> <<>>,
     max_wlen |-> 0, max_rlen |-> 0, size |-> 0, addr |-> 0, end |-> 0, offset |-> 0,
     len |-> 0, buffer |-> <<>>, compare |-> <<>>, voff |-> 0, failed |-> 0,
     log |-> <<>>]
\* the port is open and the reader thread runs, as SerialPort::Init leaves
\* them; no bootloader session. thread is the place of ThreadFn in its loop,
\* view the value of m_direct the thread may still see, fd the bytes waiting
\* on the descriptor, "c" sent in indirect mode and "r" sent in direct mode,
\* sent their number, engine the bytes the reads of the session got, console
\* the bytes ThreadFn read, and stolen the bytes ThreadFn read while m_direct
\* was true
SerialIdle ==
    [m_direct |-> FALSE, view |-> FALSE, thread |-> "while", session |-> "closed",
     fd |-> <<>>, sent |-> 0, engine |-> <<>>, console |-> <<>>, stolen |-> 0]
\* stm32main not running: the globals as init_options leaves them
MainIdle ==
    [argv |-> [action |-> "ACT_NONE", R |-> 0, g |-> <<>>], action |-> "ACT_NONE",
     reset_flag |-> 0, exec_flag |-> 0, execute |-> 0, ret |-> 1, s_err |-> "none",
     go |-> "none", bl_exit |-> 0, pc |-> "idle", w |-> WriteIdle]

Init ==
    /\ port \in Ports
    /\ \/ heap = "none" /\ stm = StmFresh
       \/ heap = "allocated" /\ stm \in Sessions
    /\ call = NoCall
    /\ stack = <<>>
    /\ rv = "none"
    /\ res = "none"
    /\ wire = <<>>
    /\ now = 0
    /\ ack = AckIdle
    /\ gl = GlIdle
    /\ rs = RsIdle
    /\ buf = <<>>
    /\ out = <<>>
    /\ device = DeviceIdle
    /\ off = 0
    /\ main = MainIdle
    /\ serial = SerialIdle

\* ------------------------------------------------------ control fragments
\* c transfers off the expected course are met in this step
Spend(c) == off + c <= MaxDev /\ off' = off + c /\ device' = device

\* the public operation returns r without touching the port
Ret(r) ==
    /\ stack' = <<>>
    /\ res' = r
    /\ UNCHANGED <<rv, wire, now, ack>>

\* an inner function returns r to its caller without touching the port
Pop(r) ==
    /\ stack' = Rest
    /\ rv' = r
    /\ UNCHANGED <<res, wire, now, ack>>

\* a function that is a public operation, or is called by one, returns r
Leave(r) == IF Len(stack) > 1 THEN Pop(r) ELSE Ret(r)

\* entry of stm32_get_ack_timeout: lines 192-196
AckEnter(timeout) ==
    LET tmo == IF "RETRY" \in port.flags THEN timeout ELSE 0
    IN [timeout |-> timeout, tmo |-> tmo, t0 |-> IF tmo # 0 THEN now ELSE 0]

\* a BUSY byte ends the wait
AckDecide_busy_ends(st, byte, tmo, t0, t1) ==
    IF st = "TIMEDOUT" /\ tmo # 0 /\ t1 < t0 + tmo THEN "AGAIN"
    ELSE IF st # "OK" THEN "UNKNOWN"
    ELSE IF byte = STM32_ACK THEN "OK"
    ELSE IF byte = STM32_NACK THEN "NACK"
    ELSE "UNKNOWN"

\* a timed-out read is tried again whatever the clock says
AckDecide_no_deadline(st, byte, tmo, t0, t1) ==
    IF st = "TIMEDOUT" /\ tmo # 0 THEN "AGAIN"
    ELSE IF st # "OK" THEN "UNKNOWN"
    ELSE IF byte = STM32_ACK THEN "OK"
    ELSE IF byte = STM32_NACK THEN "NACK"
    ELSE IF byte # STM32_BUSY THEN "UNKNOWN"
    ELSE "AGAIN"

\* what one pass of the loop of stm32_get_ack_timeout decides
AckDecide(st, byte, tmo, t0, t1) ==
    IF st = "TIMEDOUT" /\ tmo # 0 /\ t1 < t0 + tmo THEN "AGAIN"
    ELSE IF st # "OK" THEN "UNKNOWN"
    ELSE IF byte = STM32_ACK THEN "OK"
    ELSE IF byte = STM32_NACK THEN "NACK"
    ELSE IF byte # STM32_BUSY THEN "UNKNOWN"
    ELSE "AGAIN"

\* one read of the acknowledgement loop
stm32_get_ack_timeout ==
    /\ Top = "get_ack"
    /\ \E st \in ReadStatus :
       \E byte \in (IF st = "OK" THEN AckBytes ELSE {0}) :
          LET t1 == IF st = "TIMEDOUT" THEN now + ReadTimeoutSecs ELSE now
              d == AckDecide(st, byte, ack.tmo, ack.t0, t1)
          IN /\ wire' = Append(wire, REvent(1, IF st = "OK" THEN <<byte>> ELSE <<>>, st))
             /\ now' = t1
             /\ IF d = "AGAIN"
                THEN /\ Spend(1)
                     /\ UNCHANGED <<stack, rv, ack>>
                ELSE /\ Spend(0)
                     /\ ack' = AckIdle
                     /\ stack' = Rest
                     /\ rv' = d
    /\ UNCHANGED <<port, serial, main, heap, stm, call, res, gl, rs, buf, out>>

\* the opcode sent twice, without the complement
stm32_send_command_timeout_plain(base, cmd, timeout) ==
    \E st \in WriteStatus :
       /\ wire' = Append(wire, WEvent(<<cmd, cmd>>, st))
       /\ IF st = "OK"
          THEN /\ stack' = <<"get_ack", "send_command">> \o base
               /\ ack' = AckEnter(timeout)
               /\ rv' = rv
          ELSE /\ stack' = base
               /\ ack' = ack
               /\ rv' = "UNKNOWN"
       /\ UNCHANGED <<res, now>>

\* stm32_send_command_timeout up to its port->write; base is the stack the
\* caller resumes with
stm32_send_command_timeout(base, cmd, timeout) ==
    \E st \in WriteStatus :
       /\ wire' = Append(wire, WEvent(<<cmd, Xor(cmd, 255)>>, st))
       /\ IF st = "OK"
          THEN /\ stack' = <<"get_ack", "send_command">> \o base
               /\ ack' = AckEnter(timeout)
               /\ rv' = rv
          ELSE /\ stack' = base
               /\ ack' = ack
               /\ rv' = "UNKNOWN"
       /\ UNCHANGED <<res, now>>

stm32_send_command(base, cmd) == stm32_send_command_timeout(base, cmd, 0)

\* OK returned whatever the acknowledgement wait returned
send_command_ret_blind ==
    /\ Top = "send_command"
    /\ Pop("OK")
    /\ UNCHANGED <<port, serial, main, heap, stm, call, gl, rs, buf, out, device, off>>

\* stm32_send_command_timeout after the acknowledgement wait: lines 240-246
send_command_ret ==
    /\ Top = "send_command"
    /\ Pop(IF rv = "OK" THEN "OK" ELSE "UNKNOWN")
    /\ UNCHANGED <<port, serial, main, heap, stm, call, gl, rs, buf, out, device, off>>

\* the 4 bytes least significant first
AddrFrame_le(a) ==
    LET b0 == U8(Shr(a, 24))
        b1 == Shr(a, 16) % 256
        b2 == Shr(a, 8) % 256
        b3 == a % 256
    IN <<b3, b2, b1, b0, Xor(Xor(Xor(b0, b1), b2), b3)>>

\* 4 bytes most significant first, then their XOR
AddrFrame(a) ==
    LET b0 == U8(Shr(a, 24))
        b1 == Shr(a, 16) % 256
        b2 == Shr(a, 8) % 256
        b3 == a % 256
    IN <<b0, b1, b2, b3, Xor(Xor(Xor(b0, b1), b2), b3)>>

\* port->write(frame) followed by stm32_get_ack_timeout(timeout); on a failed
\* write the function returns UNKNOWN, to its caller or as the public result
WriteThenAck(base, frame, timeout) ==
    \E st \in WriteStatus :
       /\ wire' = Append(wire, WEvent(frame, st))
       /\ IF st = "OK"
          THEN /\ stack' = <<"get_ack">> \o base
               /\ ack' = AckEnter(timeout)
               /\ UNCHANGED <<rv, res>>
          ELSE /\ stack' = Tail(base)
               /\ ack' = ack
               /\ IF Len(base) > 1 THEN rv' = "UNKNOWN" /\ res' = res
                  ELSE res' = "UNKNOWN" /\ rv' = rv
       /\ now' = now

\* ------------------------------------------------------ stm32_read_memory
\* the command map consulted before the length
stm32_read_memory_cmd_first(address, len) ==
    /\ stack = <<>> /\ res = "none" /\ heap = "allocated"
    /\ call' = [NoCall EXCEPT !.op = "read_memory", !.address = address, !.len = len]
    /\ IF stm.cmd.rm = STM32_CMD_ERR THEN Ret("NO_CMD")
       ELSE IF len = 0 THEN Ret("OK")
       ELSE IF len > 256 THEN Ret("UNKNOWN")
       ELSE stm32_send_command(<<"rm_addr">>, stm.cmd.rm)
    /\ UNCHANGED <<port, serial, main, heap, stm, gl, rs, buf, out, device, off>>

stm32_read_memory(address, len) ==
    /\ stack = <<>> /\ res = "none" /\ heap = "allocated"
    /\ call' = [NoCall EXCEPT !.op = "read_memory", !.address = address, !.len = len]
    /\ IF len = 0 THEN Ret("OK")
       ELSE IF len > 256 THEN Ret("UNKNOWN")
       ELSE IF stm.cmd.rm = STM32_CMD_ERR THEN Ret("NO_CMD")
       ELSE stm32_send_command(<<"rm_addr">>, stm.cmd.rm)
    /\ UNCHANGED <<port, serial, main, heap, stm, gl, rs, buf, out, device, off>>

rm_addr ==
    /\ Top = "rm_addr"
    /\ IF rv # "OK" THEN Leave("UNKNOWN")
       ELSE WriteThenAck(<<"rm_len">> \o Rest, AddrFrame(call.address), 0)
    /\ UNCHANGED <<port, serial, main, heap, stm, call, gl, rs, buf, out, device, off>>

\* len sent where len - 1 is due
rm_len_whole ==
    /\ Top = "rm_len"
    /\ IF rv # "OK" THEN Leave("UNKNOWN")
       ELSE stm32_send_command(<<"rm_data">> \o Rest, U8(call.len))
    /\ UNCHANGED <<port, serial, main, heap, stm, call, gl, rs, buf, out, device, off>>

rm_len ==
    /\ Top = "rm_len"
    /\ IF rv # "OK" THEN Leave("UNKNOWN")
       ELSE stm32_send_command(<<"rm_data">> \o Rest, U8(call.len - 1))
    /\ UNCHANGED <<port, serial, main, heap, stm, call, gl, rs, buf, out, device, off>>

\* what the device may send for len bytes at address: a fixed pattern; or,
\* read back by stm32main after a write, the bytes written or the same with
\* the first one not taken
Flash(address, len) ==
    IF main.pc = "idle" THEN {Pat(len)}
    ELSE LET o == address - main.w.addr
             good == SubSeq(main.w.buffer, o + 1, o + len)
         IN {good, [good EXCEPT ![1] = Xor(@, 255)]}

\* the data go to the caller's array: the out parameter of the public
\* operation, or the local buf of stm32_crc_wrapper
rm_data ==
    /\ Top = "rm_data"
    /\ IF rv # "OK" THEN Leave("UNKNOWN") /\ UNCHANGED <<out, buf>>
       ELSE \E st \in ReadStatus :
            \E d \in (IF st = "OK" THEN Flash(call.address, call.len) ELSE {<<>>}) :
               LET data == d
                   r == IF st = "OK" THEN "OK" ELSE "UNKNOWN"
               IN /\ wire' = Append(wire, REvent(call.len, data, st))
                  /\ stack' = Rest
                  /\ IF Len(stack) > 1
                     THEN rv' = r /\ buf' = data /\ UNCHANGED <<res, out>>
                     ELSE res' = r /\ out' = data /\ UNCHANGED <<rv, buf>>
                  /\ now' = IF st = "TIMEDOUT" THEN now + ReadTimeoutSecs ELSE now
                  /\ ack' = ack
    /\ UNCHANGED <<port, serial, main, heap, stm, call, gl, rs, device, off>>

\* ----------------------------------------------------- stm32_write_memory
\* the padding left at zero
WriteFrame_zeropad(data, len) ==
    LET aligned_len == ((len + 3) \div 4) * 4
        body == [i \in 1..aligned_len |-> IF i <= len THEN data[i] ELSE 0]
        cs == Xor(U8(aligned_len - 1), XorSeq(body))
    IN <<U8(aligned_len - 1)>> \o body \o <<cs>>

\* the checksum taken over the payload alone, without the length byte
WriteFrame_nolen(data, len) ==
    LET aligned_len == ((len + 3) \div 4) * 4
        body == [i \in 1..aligned_len |-> IF i <= len THEN data[i] ELSE 255]
    IN <<U8(aligned_len - 1)>> \o body \o <<XorSeq(body)>>

\* the data frame of lines 629-641
WriteFrame(data, len) ==
    LET aligned_len == ((len + 3) \div 4) * 4
        body == [i \in 1..aligned_len |-> IF i <= len THEN data[i] ELSE 255]
        cs == Xor(U8(aligned_len - 1), XorSeq(body))
    IN <<U8(aligned_len - 1)>> \o body \o <<cs>>

\* the alignment test of line 605 left out
stm32_write_memory_unaligned(address, data) ==
    /\ stack = <<>> /\ res = "none" /\ heap = "allocated"
    /\ call' = [NoCall EXCEPT !.op = "write_memory", !.address = address,
                              !.len = Len(data), !.data = data]
    /\ IF Len(data) = 0 THEN Ret("OK")
       ELSE IF Len(data) > 256 THEN Ret("UNKNOWN")
       ELSE IF stm.cmd.wm = STM32_CMD_ERR THEN Ret("NO_CMD")
       ELSE stm32_send_command(<<"wm_addr">>, stm.cmd.wm)
    /\ UNCHANGED <<port, serial, main, heap, stm, gl, rs, buf, out, device, off>>

stm32_write_memory(address, data) ==
    /\ stack = <<>> /\ res = "none" /\ heap = "allocated"
    /\ call' = [NoCall EXCEPT !.op = "write_memory", !.address = address,
                              !.len = Len(data), !.data = data]
    /\ IF Len(data) = 0 THEN Ret("OK")
       ELSE IF Len(data) > 256 THEN Ret("UNKNOWN")
       ELSE IF address % 4 # 0 THEN Ret("UNKNOWN")
       ELSE IF stm.cmd.wm = STM32_CMD_ERR THEN Ret("NO_CMD")
       ELSE stm32_send_command(<<"wm_addr">>, stm.cmd.wm)
    /\ UNCHANGED <<port, serial, main, heap, stm, gl, rs, buf, out, device, off>>

\* the address sent least significant byte first
wm_addr_le ==
    /\ Top = "wm_addr"
    /\ IF rv # "OK" THEN Ret("UNKNOWN")
       ELSE WriteThenAck(<<"wm_data">>, AddrFrame_le(call.address), 0)
    /\ UNCHANGED <<port, serial, main, heap, stm, call, gl, rs, buf, out, device, off>>

wm_addr ==
    /\ Top = "wm_addr"
    /\ IF rv # "OK" THEN Leave("UNKNOWN")
       ELSE WriteThenAck(<<"wm_data">> \o Rest, AddrFrame(call.address), 0)
    /\ UNCHANGED <<port, serial, main, heap, stm, call, gl, rs, buf, out, device, off>>

wm_data ==
    /\ Top = "wm_data"
    /\ IF rv # "OK" THEN Leave("UNKNOWN")
       ELSE WriteThenAck(<<"wm_done">> \o Rest, WriteFrame(call.data, call.len),
                         STM32_BLKWRITE_TIMEOUT)
    /\ UNCHANGED <<port, serial, main, heap, stm, call, gl, rs, buf, out, device, off>>

wm_done ==
    /\ Top = "wm_done"
    /\ Leave(IF rv # "OK" THEN "UNKNOWN" ELSE "OK")
    /\ UNCHANGED <<port, serial, main, heap, stm, call, gl, rs, buf, out, device, off>>

\* ---------------------------------------------------- protect operations
\* stm32_wunprot_memory, stm32_wprot_memory, stm32_runprot_memory and
\* stm32_readprot_memory share one shape: opcode frame, then a second
\* acknowledgement awaited with the timeout of the operation
Protect(op, opcode) ==
    /\ stack = <<>> /\ res = "none" /\ heap = "allocated"
    /\ call' = [NoCall EXCEPT !.op = op]
    /\ IF opcode = STM32_CMD_ERR THEN Ret("NO_CMD")
       ELSE stm32_send_command(<<"prot_sent">>, opcode)
    /\ UNCHANGED <<port, serial, main, heap, stm, gl, rs, buf, out, device, off>>

stm32_wunprot_memory == Protect("wunprot", stm.cmd.uw)
stm32_wprot_memory == Protect("wprot", stm.cmd.wp)
stm32_runprot_memory == Protect("runprot", stm.cmd.ur)
stm32_readprot_memory == Protect("readprot", stm.cmd.rp)

\* the same timeout for the four operations
ProtTimeout_flat(op) == STM32_WPROT_TIMEOUT

ProtTimeout(op) ==
    IF op = "wunprot" THEN STM32_WUNPROT_TIMEOUT
    ELSE IF op = "wprot" THEN STM32_WPROT_TIMEOUT
    ELSE IF op = "runprot" THEN STM32_MASSERASE_TIMEOUT
    ELSE STM32_RPROT_TIMEOUT

prot_sent ==
    /\ Top = "prot_sent"
    /\ IF rv # "OK" THEN Leave("UNKNOWN")
       ELSE /\ stack' = <<"get_ack", "prot_done">> \o Rest
            /\ ack' = AckEnter(ProtTimeout(call.op))
            /\ UNCHANGED <<rv, res, wire, now>>
    /\ UNCHANGED <<port, serial, main, heap, stm, call, gl, rs, buf, out, device, off>>

prot_done ==
    /\ Top = "prot_done"
    /\ Leave(IF rv = "OK" THEN "OK" ELSE "UNKNOWN")
    /\ UNCHANGED <<port, serial, main, heap, stm, call, gl, rs, buf, out, device, off>>

\* ------------------------------------------------------ stm32_erase_memory
\* the walk over the page sizes shared by the flash_* helpers: <<page, rest>>
RECURSIVE PageWalk(_, _, _, _)
PageWalk(ps, addr, page, i) ==
    IF addr >= ps[i]
    THEN PageWalk(ps, addr - ps[i], page + 1, IF ps[i + 1] # 0 THEN i + 1 ELSE i)
    ELSE <<page, addr>>

is_addr_in_flash(d, addr) == addr >= d.fl_start /\ addr < d.fl_end

flash_addr_to_page_floor(d, addr) ==
    IF ~is_addr_in_flash(d, addr) THEN 0
    ELSE PageWalk(d.fl_ps, addr - d.fl_start, 0, 1)[1]

\* the range test of flash_addr_to_page_floor in its place
flash_addr_to_page_ceil_strict(d, addr) ==
    IF ~is_addr_in_flash(d, addr) THEN 0
    ELSE LET w == PageWalk(d.fl_ps, addr - d.fl_start, 0, 1)
         IN IF w[2] # 0 THEN w[1] + 1 ELSE w[1]

flash_addr_to_page_ceil(d, addr) ==
    IF ~(addr >= d.fl_start /\ addr <= d.fl_end) THEN 0
    ELSE LET w == PageWalk(d.fl_ps, addr - d.fl_start, 0, 1)
         IN IF w[2] # 0 THEN w[1] + 1 ELSE w[1]

\* the loop of flash_page_to_addr: n pages to go, psize at entry i
RECURSIVE PageAddr(_, _, _, _)
PageAddr(ps, addr, i, n) ==
    IF n <= 0 THEN addr
    ELSE PageAddr(ps, addr + ps[i], IF ps[i + 1] # 0 THEN i + 1 ELSE i, n - 1)

\* every page of the size of the first
flash_page_to_addr_first(d, page) == d.fl_start + page * d.fl_ps[1]

\* addresses stay below 2^31 on the devices tried, far from the 32-bit wrap
flash_page_to_addr(d, page) == PageAddr(d.fl_ps, d.fl_start, 1, page)

\* the count and the pages written as they are
LegacyEraseFrame_wide(spage, pages) ==
    LET body == <<pages - 1>> \o [i \in 1..pages |-> spage + i - 1]
    IN body \o <<XorSeq([i \in 1..(pages + 1) |-> U8(body[i])])>>

\* legacy payload: count, pages, checksum, each cut to a byte
LegacyEraseFrame(spage, pages) ==
    LET body == <<U8(pages - 1)>> \o [i \in 1..pages |-> U8(spage + i - 1)]
    IN body \o <<XorSeq(body)>>

\* extended payload: count and pages as two bytes, most significant first
ExtEraseFrame(spage, pages) ==
    LET pg(i) == spage + ((i - 1) \div 2)
        body == <<U8(Shr(pages - 1, 8)), (pages - 1) % 256>> \o
                [i \in 1..(2 * pages) |->
                    IF i % 2 = 1 THEN U8(Shr(pg(i), 8)) ELSE pg(i) % 256]
    IN body \o <<XorSeq(body)>>

Min(a, b) == IF a < b THEN a ELSE b

\* the flag F_NO_ME of the device not consulted
stm32_erase_memory_any_me(spage, pages) ==
    /\ stack = <<>> /\ res = "none" /\ heap = "allocated"
    /\ IF \/ pages = 0
          \/ spage > STM32_MAX_PAGES
          \/ (pages # STM32_MASS_ERASE /\ spage + pages > STM32_MAX_PAGES)
       THEN Ret("OK") /\ call' = [NoCall EXCEPT !.op = "erase", !.spage = spage, !.pages = pages,
                                         !.args = <<spage, pages>>]
       ELSE IF stm.cmd.er = STM32_CMD_ERR
       THEN Ret("NO_CMD") /\ call' = [NoCall EXCEPT !.op = "erase", !.spage = spage, !.pages = pages,
                                         !.args = <<spage, pages>>]
       ELSE IF pages = STM32_MASS_ERASE
       THEN /\ call' = [NoCall EXCEPT !.op = "erase", !.spage = spage, !.pages = pages,
                                         !.args = <<spage, pages>>]
            /\ stm32_send_command(<<"me_sent">>, stm.cmd.er)
       ELSE /\ call' = [NoCall EXCEPT !.op = "erase", !.spage = spage, !.pages = pages,
                                      !.len = Min(pages, 512),
                                      !.args = <<spage, pages>>]
            /\ stm32_send_command(<<"pe_sent">>, stm.cmd.er)
    /\ UNCHANGED <<port, serial, main, heap, stm, gl, rs, buf, out, device, off>>

\* the command map consulted before the arguments
stm32_erase_memory_cmd_first(spage, pages) ==
    /\ stack = <<>> /\ res = "none" /\ heap = "allocated"
    /\ IF stm.cmd.er = STM32_CMD_ERR
       THEN Ret("NO_CMD") /\ call' = [NoCall EXCEPT !.op = "erase", !.spage = spage, !.pages = pages,
                                         !.args = <<spage, pages>>]
       ELSE IF \/ pages = 0
               \/ spage > STM32_MAX_PAGES
               \/ (pages # STM32_MASS_ERASE /\ spage + pages > STM32_MAX_PAGES)
       THEN Ret("OK") /\ call' = [NoCall EXCEPT !.op = "erase", !.spage = spage, !.pages = pages,
                                         !.args = <<spage, pages>>]
       ELSE IF pages = STM32_MASS_ERASE /\ F_NO_ME \notin devices[stm.dev].flags
       THEN /\ call' = [NoCall EXCEPT !.op = "erase", !.spage = spage, !.pages = pages,
                                         !.args = <<spage, pages>>]
            /\ stm32_send_command(<<"me_sent">>, stm.cmd.er)
       ELSE LET p == IF pages = STM32_MASS_ERASE
                     THEN flash_addr_to_page_ceil(devices[stm.dev], devices[stm.dev].fl_end)
                     ELSE pages
            IN /\ call' = [NoCall EXCEPT !.op = "erase", !.spage = spage, !.pages = p,
                                         !.len = Min(p, 512),
                                         !.args = <<spage, pages>>]
               /\ IF p = 0 THEN Ret("OK")
                  ELSE stm32_send_command(<<"pe_sent">>, stm.cmd.er)
    /\ UNCHANGED <<port, serial, main, heap, stm, gl, rs, buf, out, device, off>>

stm32_erase_memory(spage, pages) ==
    /\ stack = <<>> /\ res = "none" /\ heap = "allocated"
    /\ IF \/ pages = 0
          \/ spage > STM32_MAX_PAGES
          \/ (pages # STM32_MASS_ERASE /\ spage + pages > STM32_MAX_PAGES)
       THEN Ret("OK") /\ call' = [NoCall EXCEPT !.op = "erase", !.spage = spage, !.pages = pages,
                                         !.args = <<spage, pages>>]
       ELSE IF stm.cmd.er = STM32_CMD_ERR
       THEN Ret("NO_CMD") /\ call' = [NoCall EXCEPT !.op = "erase", !.spage = spage, !.pages = pages,
                                         !.args = <<spage, pages>>]
       ELSE IF pages = STM32_MASS_ERASE /\ F_NO_ME \notin devices[stm.dev].flags
       THEN /\ call' = [NoCall EXCEPT !.op = "erase", !.spage = spage, !.pages = pages,
                                         !.args = <<spage, pages>>]
            /\ stm32_send_command(<<"me_sent">>, stm.cmd.er)
       ELSE LET p == IF pages = STM32_MASS_ERASE
                     THEN flash_addr_to_page_ceil(devices[stm.dev], devices[stm.dev].fl_end)
                     ELSE pages
            IN /\ call' = [NoCall EXCEPT !.op = "erase", !.spage = spage, !.pages = p,
                                         !.len = Min(p, 512),
                                         !.args = <<spage, pages>>]
               /\ IF p = 0 THEN Ret("OK")
                  ELSE stm32_send_command(<<"pe_sent">>, stm.cmd.er)
    /\ UNCHANGED <<port, serial, main, heap, stm, gl, rs, buf, out, device, off>>

\* the acknowledgement of the mass-erase frame awaited without a timeout
me_sent_untimed ==
    /\ Top = "me_sent"
    /\ IF rv # "OK" THEN Ret("UNKNOWN")
       ELSE IF stm.cmd.er = STM32_CMD_ER
       THEN stm32_send_command_timeout(<<"me_done">>, 255, 0)
       ELSE WriteThenAck(<<"me_done">>, <<255, 255, 0>>, 0)
    /\ UNCHANGED <<port, serial, main, heap, stm, call, gl, rs, buf, out, device, off>>

\* stm32_mass_erase after the erase opcode: lines 759-783
me_sent ==
    /\ Top = "me_sent"
    /\ IF rv # "OK" THEN Ret("UNKNOWN")
       ELSE IF stm.cmd.er = STM32_CMD_ER
       THEN stm32_send_command_timeout(<<"me_done">>, 255, STM32_MASSERASE_TIMEOUT)
       ELSE WriteThenAck(<<"me_done">>, <<255, 255, 0>>, STM32_MASSERASE_TIMEOUT)
    /\ UNCHANGED <<port, serial, main, heap, stm, call, gl, rs, buf, out, device, off>>

\* the result of the last acknowledgement wait handed to the caller as it is
me_done_raw ==
    /\ Top = "me_done"
    /\ Ret(rv)
    /\ UNCHANGED <<port, serial, main, heap, stm, call, gl, rs, buf, out, device, off>>

me_done ==
    /\ Top = "me_done"
    /\ Ret(IF rv = "OK" THEN "OK" ELSE "UNKNOWN")
    /\ UNCHANGED <<port, serial, main, heap, stm, call, gl, rs, buf, out, device, off>>

\* stm32_pages_erase after the erase opcode: call.len pages from call.spage
pe_sent ==
    /\ Top = "pe_sent"
    /\ IF rv # "OK" THEN Ret("UNKNOWN")
       ELSE WriteThenAck(<<"pe_done">>,
                         IF stm.cmd.er = STM32_CMD_ER
                         THEN LegacyEraseFrame(call.spage, call.len)
                         ELSE ExtEraseFrame(call.spage, call.len),
                         call.len * STM32_PAGEERASE_TIMEOUT)
    /\ UNCHANGED <<port, serial, main, heap, stm, call, gl, rs, buf, out, device, off>>

\* the loop of stm32_erase_memory, lines 912-920
pe_done ==
    /\ Top = "pe_done"
    /\ IF rv # "OK" THEN Ret("UNKNOWN") /\ call' = call
       ELSE LET left == call.pages - call.len
            IN /\ call' = [call EXCEPT !.spage = @ + call.len, !.pages = left,
                                       !.len = Min(left, 512)]
               /\ IF left = 0 THEN Ret("OK")
                  ELSE stm32_send_command(<<"pe_sent">>, stm.cmd.er)
    /\ UNCHANGED <<port, serial, main, heap, stm, gl, rs, buf, out, device, off>>

\* ---------------------------------------------------------------- stm32_go
\* the test of the command map of line 967 left out
stm32_go_unchecked(address) ==
    /\ stack = <<>> /\ res = "none" /\ heap = "allocated"
    /\ call' = [NoCall EXCEPT !.op = "go", !.address = address]
    /\ stm32_send_command(<<"go_addr">>, stm.cmd.go)
    /\ UNCHANGED <<port, serial, main, heap, stm, gl, rs, buf, out, device, off>>

stm32_go(address) ==
    /\ stack = <<>> /\ res = "none" /\ heap = "allocated"
    /\ call' = [NoCall EXCEPT !.op = "go", !.address = address]
    /\ IF stm.cmd.go = STM32_CMD_ERR THEN Ret("NO_CMD")
       ELSE stm32_send_command(<<"go_addr">>, stm.cmd.go)
    /\ UNCHANGED <<port, serial, main, heap, stm, gl, rs, buf, out, device, off>>

go_addr ==
    /\ Top = "go_addr"
    /\ IF rv # "OK" THEN Leave("UNKNOWN")
       ELSE WriteThenAck(<<"go_done">> \o Rest, AddrFrame(call.address), 0)
    /\ UNCHANGED <<port, serial, main, heap, stm, call, gl, rs, buf, out, device, off>>

go_done ==
    /\ Top = "go_done"
    /\ Leave(IF rv = "OK" THEN "OK" ELSE "UNKNOWN")
    /\ UNCHANGED <<port, serial, main, heap, stm, call, gl, rs, buf, out, device, off>>

\* -------------------------------------------------------- stm32_crc_memory
stm32_crc_memory(address, length) ==
    /\ stack = <<>> /\ res = "none" /\ heap = "allocated"
    /\ call' = [NoCall EXCEPT !.op = "crc", !.address = address, !.len = length]
    /\ IF address % 4 # 0 \/ length % 4 # 0 THEN Ret("UNKNOWN")
       ELSE IF stm.cmd.crc = STM32_CMD_ERR THEN Ret("NO_CMD")
       ELSE stm32_send_command(<<"crc_addr">>, stm.cmd.crc)
    /\ UNCHANGED <<port, serial, main, heap, stm, gl, rs, buf, out, device, off>>

crc_addr ==
    /\ Top = "crc_addr"
    /\ IF rv # "OK" THEN Ret("UNKNOWN")
       ELSE WriteThenAck(<<"crc_len">>, AddrFrame(call.address), 0)
    /\ UNCHANGED <<port, serial, main, heap, stm, call, gl, rs, buf, out, device, off>>

\* the result read after a single acknowledgement of the length frame
crc_len_single ==
    /\ Top = "crc_len"
    /\ IF rv # "OK" THEN Ret("UNKNOWN")
       ELSE WriteThenAck(<<"crc_read">>, AddrFrame(call.len), 0)
    /\ UNCHANGED <<port, serial, main, heap, stm, call, gl, rs, buf, out, device, off>>

crc_len ==
    /\ Top = "crc_len"
    /\ IF rv # "OK" THEN Ret("UNKNOWN")
       ELSE WriteThenAck(<<"crc_ack2">>, AddrFrame(call.len), 0)
    /\ UNCHANGED <<port, serial, main, heap, stm, call, gl, rs, buf, out, device, off>>

\* lines 1037-1041: the second of the two consecutive acknowledgements
crc_ack2 ==
    /\ Top = "crc_ack2"
    /\ IF rv # "OK" THEN Ret("UNKNOWN")
       ELSE /\ stack' = <<"get_ack", "crc_read">>
            /\ ack' = AckEnter(0)
            /\ UNCHANGED <<rv, res, wire, now>>
    /\ UNCHANGED <<port, serial, main, heap, stm, call, gl, rs, buf, out, device, off>>

\* lines 1040-1050: the 5 bytes of the result
crc_read ==
    /\ Top = "crc_read"
    /\ IF rv # "OK" THEN Ret("UNKNOWN") /\ out' = out
       ELSE \E st \in ReadStatus :
            \E r \in (IF st = "OK" THEN CrcReplies ELSE {<<>>}) :
               /\ wire' = Append(wire, REvent(5, r, st))
               /\ now' = IF st = "TIMEDOUT" THEN now + ReadTimeoutSecs ELSE now
               /\ stack' = <<>>
               /\ IF st # "OK" THEN res' = "UNKNOWN" /\ out' = out
                  ELSE IF r[5] # Xor(Xor(Xor(r[1], r[2]), r[3]), r[4])
                  THEN res' = "UNKNOWN" /\ out' = out
                  ELSE /\ res' = "OK"
                       /\ out' = <<r[1] * 16777216 + r[2] * 65536 + r[3] * 256 + r[4]>>
               /\ UNCHANGED <<rv, ack>>
    /\ UNCHANGED <<port, serial, main, heap, stm, call, gl, rs, buf, device, off>>

\* ------------------------------------------------------------ stm32_sw_crc
\* a uint32_t is kept as its 4 bytes, most significant first
CRCPOLY_BE == <<4, 193, 29, 183>>
CRC_INIT_VALUE == <<255, 255, 255, 255>>
WordXor(a, b) == <<Xor(a[1], b[1]), Xor(a[2], b[2]), Xor(a[3], b[3]), Xor(a[4], b[4])>>
\* w << 1 in 32 bits
Shl1(w) ==
    << ((w[1] * 2) % 256) + (w[2] \div 128), ((w[2] * 2) % 256) + (w[3] \div 128),
       ((w[3] * 2) % 256) + (w[4] \div 128), (w[4] * 2) % 256 >>

\* one pass of the for loop of lines 1080-1084
CrcBit(crc) == IF crc[1] >= 128 THEN WordXor(Shl1(crc), CRCPOLY_BE) ELSE Shl1(crc)

\* n passes of the for loop, folded by halves (TLC computes an argument when
\* it is first used: a test h = h has it compute h there and then, which
\* keeps the evaluation shallow)
RECURSIVE CrcShift(_, _)
CrcShift(crc, n) ==
    IF n = 1 THEN CrcBit(crc)
    ELSE LET h == CrcShift(crc, n \div 2)
         IN IF h = h THEN CrcShift(h, n - (n \div 2)) ELSE h

\* the word assembled with the first byte most significant
CrcWord_be(crc, b, p) ==
    CrcShift(WordXor(crc, <<b[p], b[p + 1], b[p + 2], b[p + 3]>>), 32)

\* one pass of the while loop on the 4 bytes of b from p: lines 1072-1084
CrcWord(crc, b, p) ==
    CrcShift(WordXor(crc, <<b[p + 3], b[p + 2], b[p + 1], b[p]>>), 32)

\* the while loop over the words lo..hi of b in order, folded by halves
RECURSIVE CrcLoop(_, _, _, _)
CrcLoop(crc, b, lo, hi) ==
    IF lo > hi THEN crc
    ELSE IF lo = hi THEN CrcWord(crc, b, 4 * lo - 3)
    ELSE LET mid == (lo + hi) \div 2
             h == CrcLoop(crc, b, lo, mid)
         IN IF h = h THEN CrcLoop(h, b, mid + 1, hi) ELSE h

stm32_sw_crc(crc, b) ==
    IF Len(b) % 4 # 0 THEN <<0, 0, 0, 0>> ELSE CrcLoop(crc, b, 1, Len(b) \div 4)

\* ------------------------------------------------------- stm32_crc_wrapper
\* the chunks read whole, one read of up to 512 bytes for each pair
CwHead_whole(c) ==
    IF c.length = 0
    THEN /\ call' = c
         /\ out' = <<c.crc>>
         /\ Ret("OK")
    ELSE /\ call' = [c EXCEPT !.len = Min(c.length, 512)]
         /\ out' = out
         /\ IF stm.cmd.rm = STM32_CMD_ERR THEN Ret("UNKNOWN")
            ELSE stm32_send_command(<<"rm_addr", "cw_chunk">>, stm.cmd.rm)

\* head of the while loop with the locals c: either the end, lines 1119-1121,
\* or the call of stm32_read_memory for the next chunk, lines 1107-1108
CwHead(c) ==
    IF c.length = 0
    THEN /\ call' = c
         /\ out' = <<c.crc>>
         /\ Ret("OK")
    ELSE /\ call' = [c EXCEPT !.len = Min(c.length, 256)]
         /\ out' = out
         /\ IF stm.cmd.rm = STM32_CMD_ERR THEN Ret("UNKNOWN")
            ELSE stm32_send_command(<<"rm_addr", "cw_chunk">>, stm.cmd.rm)

stm32_crc_wrapper(address, length) ==
    /\ stack = <<>> /\ res = "none" /\ heap = "allocated"
    /\ LET c == [NoCall EXCEPT !.op = "crc_wrapper", !.address = address,
                               !.length = length, !.args = <<address, length>>,
                               !.crc = CRC_INIT_VALUE]
       IN IF address % 4 # 0 \/ length % 4 # 0
          THEN call' = c /\ out' = out /\ Ret("UNKNOWN")
          ELSE IF stm.cmd.crc # STM32_CMD_ERR
          THEN /\ call' = [c EXCEPT !.len = length]
               /\ out' = out
               /\ stm32_send_command(<<"crc_addr">>, stm.cmd.crc)
          ELSE CwHead(c)
    /\ UNCHANGED <<port, serial, main, heap, stm, gl, rs, buf, device, off>>

\* after stm32_read_memory: lines 1108-1114
cw_chunk ==
    /\ Top = "cw_chunk"
    /\ IF rv # "OK" THEN Ret("UNKNOWN") /\ UNCHANGED <<call, out>>
       ELSE CwHead([call EXCEPT !.crc = stm32_sw_crc(call.crc, buf),
                                !.length = @ - call.len,
                                !.address = @ + call.len])
    /\ UNCHANGED <<port, serial, main, heap, stm, gl, rs, buf, device, off>>

\* ------------------------------------------------------------ stm32_resync
\* seconds a timed-out read takes: 2 on the serial port, and on a frame
\* port possibly a stall that outlasts the resync deadline
StallSecs == STM32_RESYNC_TIMEOUT
TimeoutTicks == IF "BYTE" \in port.flags THEN {ReadTimeoutSecs} ELSE {ReadTimeoutSecs, StallSecs}

\* stm32_resync is entered with rs = [t0 |-> the time of entry, n |-> 0]
\* head of the loop and the write of the pair FF 00: lines 265-271
resync_write ==
    /\ Top = "resync"
    /\ IF ~(now < rs.t0 + STM32_RESYNC_TIMEOUT)
       THEN Pop("UNKNOWN") /\ rs' = RsIdle /\ Spend(0)
       ELSE \E st \in WriteStatus :
               /\ wire' = Append(wire, WEvent(<<STM32_CMD_ERR, Xor(STM32_CMD_ERR, 255)>>, st))
               /\ rs' = rs
               /\ IF st = "OK"
                  THEN stack' = <<"resync_read">> \o Rest /\ now' = now /\ Spend(0)
                  ELSE \* usleep(500000); time(&t1)
                       stack' = stack /\ now' \in {now, now + 1} /\ Spend(1)
               /\ UNCHANGED <<rv, res, ack>>
    /\ UNCHANGED <<port, serial, main, heap, stm, call, gl, buf, out>>

\* the read of the reply to FF 00: lines 272-279
resync_read ==
    /\ Top = "resync_read"
    /\ \E st \in ReadStatus :
       \E byte \in (IF st = "OK" THEN AckBytes ELSE {0}) :
       \E t1 \in (IF st = "TIMEDOUT" THEN {now + d : d \in TimeoutTicks} ELSE {now}) :
          /\ wire' = Append(wire, REvent(1, IF st = "OK" THEN <<byte>> ELSE <<>>, st))
          /\ now' = t1
          /\ IF st = "OK" /\ byte = STM32_NACK
             THEN stack' = Rest /\ rv' = "OK" /\ rs' = RsIdle /\ Spend(0)
             ELSE stack' = <<"resync">> \o Rest /\ rv' = rv /\ rs' = rs /\ Spend(1)
          /\ UNCHANGED <<res, ack>>
    /\ UNCHANGED <<port, serial, main, heap, stm, call, gl, buf, out>>

\* ----------------------------------------------------- stm32_guess_len_cmd
\* replies of the device to GET: length byte L, bootloader version, L opcodes
S1Cmds == <<0, 1, 2, 17, 33, 49, 67, 99, 115, 130, 146>>
\* the mandatory commands, to which any short run of the other opcodes is added
GetBase == <<0, 1, 2>>
\* replies that lack a mandatory command, or repeat the erase opcodes
GetOdd ==
    { <<>>, <<1, 2>>, <<0, 2, 17>>, <<0, 1, 33>>,
      <<0, 1, 2, 69, 67, 68>>, <<0, 1, 2, 68, 69, 67>>,
      <<0, 1, 2, 17, 33, 50, 68, 100, 116, 131, 147, 161>>,
      <<161, 146, 147, 130, 131, 115, 116, 2, 1, 0>>,
      <<0, 1, 2, 147, 146, 131, 130, 116, 115>> }
\* 0x50 is no opcode of the protocol
TailOpcodes ==
    {STM32_CMD_WM, STM32_CMD_WM_NS, STM32_CMD_ER, STM32_CMD_EE, STM32_CMD_EE_NS,
     STM32_CMD_WP, STM32_CMD_WP_NS, 80}
Tails == UNION {[1..n -> TailOpcodes] : n \in 0..MaxGetTail}
\* a frame port meets the fixed replies only: each of them runs through resync
GetCmdLists ==
    IF "BYTE" \in port.flags THEN {GetBase \o t : t \in Tails} \cup GetOdd \cup {S1Cmds}
    ELSE GetOdd \cup {S1Cmds, GetBase}
GetReply(c) == <<Len(c), 34>> \o c
GetReplies == {GetReply(c) : c \in GetCmdLists}

\* replies to GID: length byte L, then L+1 bytes
GidReplies ==
    { <<1, 4, 16>>, <<1, 4, 22>>, <<1, 4, 153>>, <<1, 0, 0>>, <<0, 4>>,
      <<2, 4, 16, 0>>, <<255>> \o Fill(256, 0) }

\* the device answers one command the same way each time it is sent: the
\* reply is chosen when its first byte is delivered and kept in device
Known(cmd) == IF cmd = STM32_CMD_GET THEN device.get ELSE device.gid
Replies(cmd) ==
    IF Known(cmd) # <<>> THEN {Known(cmd)}
    ELSE IF cmd = STM32_CMD_GET THEN GetReplies ELSE GidReplies

\* the replies of scenario S1 are the expected course
Off(cmd, r) == IF Known(cmd) # <<>> \/ r \in {GetReply(S1Cmds), <<1, 4, 16>>} THEN 0 ELSE 1

\* the device gives reply r to cmd
Answer(cmd, r) ==
    /\ off + Off(cmd, r) <= MaxDev
    /\ off' = off + Off(cmd, r)
    /\ device' = IF cmd = STM32_CMD_GET THEN [device EXCEPT !.get = r]
                 ELSE [device EXCEPT !.gid = r]

\* what a frame port delivers when n bytes are asked of reply r
FrameRead(r, n) == [i \in 1..n |-> IF i <= Len(r) THEN r[i] ELSE 0]

TimedOut(st) == IF st = "TIMEDOUT" THEN {now + d : d \in TimeoutTicks} ELSE {now}

\* stm32_guess_len_cmd: entry, line 300
stm32_guess_len_cmd(base, cmd, len) ==
    /\ gl' = [cmd |-> cmd, len |-> len]
    /\ stm32_send_command(<<"gl_sent">> \o base, cmd)

\* lines 300-326: after the first send_command
gl_sent ==
    /\ Top = "gl_sent"
    /\ IF rv # "OK" THEN Pop("UNKNOWN") /\ UNCHANGED <<buf, gl, rs, device, off>>
       ELSE IF "BYTE" \in port.flags
       THEN \E st \in ReadStatus :
            \E r \in (IF st = "OK" THEN Replies(gl.cmd) ELSE {<<0>>}) :
            \E t1 \in TimedOut(st) :
               /\ wire' = Append(wire, REvent(1, IF st = "OK" THEN <<r[1]>> ELSE <<>>, st))
               /\ now' = t1
               /\ IF st = "OK"
                  THEN /\ buf' = <<r[1]>>
                       /\ gl' = [gl EXCEPT !.len = r[1]]
                       /\ stack' = <<"gl_body">> \o Rest
                       /\ rv' = rv
                       /\ Answer(gl.cmd, r)
                  ELSE /\ stack' = Rest /\ rv' = "UNKNOWN"
                       /\ UNCHANGED <<buf, gl, device, off>>
               /\ UNCHANGED <<res, ack, rs>>
       ELSE \E st \in ReadStatus :
            \E r \in (IF st = "OK" THEN Replies(gl.cmd) ELSE {<<0>>}) :
            \E t1 \in TimedOut(st) :
               LET data == FrameRead(r, gl.len + 2)
               IN /\ wire' = Append(wire, REvent(gl.len + 2, IF st = "OK" THEN data ELSE <<>>, st))
                  /\ now' = t1
                  /\ IF st = "OK" /\ gl.len = data[1]
                     THEN /\ buf' = data /\ stack' = Rest /\ rv' = "OK"
                          /\ rs' = rs /\ gl' = gl
                          /\ Answer(gl.cmd, r)
                     ELSE IF st # "OK"
                     THEN /\ buf' = buf /\ stack' = <<"resync", "gl_rs1">> \o Rest
                          /\ rv' = rv /\ rs' = [t0 |-> t1] /\ gl' = gl
                          /\ Spend(1)
                     ELSE /\ buf' = data /\ stack' = <<"resync", "gl_rs2">> \o Rest
                          /\ rv' = rv /\ rs' = [t0 |-> t1]
                          /\ gl' = gl
                          /\ Answer(gl.cmd, r)
                  /\ UNCHANGED <<res, ack>>
    /\ UNCHANGED <<port, serial, main, heap, stm, call, out>>

\* the second read of a BYTE port takes the closing ACK with the reply
gl_body_with_ack ==
    /\ Top = "gl_body"
    /\ \E st \in ReadStatus :
       \E r \in (IF st = "OK" THEN {x \in Replies(gl.cmd) : x[1] = gl.len} ELSE {<<0>>}) :
       \E t1 \in TimedOut(st) :
          /\ wire' = Append(wire, REvent(gl.len + 2,
                        IF st = "OK" THEN Tail(r) \o <<STM32_ACK>> ELSE <<>>, st))
          /\ now' = t1
          /\ buf' = IF st = "OK" THEN r \o <<STM32_ACK>> ELSE buf
          /\ stack' = Rest
          /\ rv' = IF st = "OK" THEN "OK" ELSE "UNKNOWN"
          /\ UNCHANGED <<res, ack>>
    /\ UNCHANGED <<port, serial, main, heap, stm, call, gl, rs, out, device, off>>

\* BYTE port, lines 307-311: the L+1 bytes after the length byte
gl_body ==
    /\ Top = "gl_body"
    /\ \E st \in ReadStatus :
       \E r \in (IF st = "OK" THEN {x \in Replies(gl.cmd) : x[1] = gl.len} ELSE {<<0>>}) :
       \E t1 \in TimedOut(st) :
          /\ wire' = Append(wire, REvent(gl.len + 1, IF st = "OK" THEN Tail(r) ELSE <<>>, st))
          /\ now' = t1
          /\ buf' = IF st = "OK" THEN r ELSE buf
          /\ stack' = Rest
          /\ rv' = IF st = "OK" THEN "OK" ELSE "UNKNOWN"
          /\ UNCHANGED <<res, ack>>
    /\ UNCHANGED <<port, serial, main, heap, stm, call, gl, rs, out, device, off>>

\* lines 319-322: after the first resync, send the command again
gl_rs1 ==
    /\ Top = "gl_rs1"
    /\ IF rv # "OK" THEN Pop("UNKNOWN")
       ELSE stm32_send_command(<<"gl_sent2">> \o Rest, gl.cmd)
    /\ UNCHANGED <<port, serial, main, heap, stm, call, gl, rs, buf, out, device, off>>

\* lines 321-329: read the length byte alone, then resync again
gl_sent2 ==
    /\ Top = "gl_sent2"
    /\ IF rv # "OK" THEN Pop("UNKNOWN") /\ UNCHANGED <<buf, rs, gl, device, off>>
       ELSE \E st \in ReadStatus :
            \E r \in (IF st = "OK" THEN Replies(gl.cmd) ELSE {<<0>>}) :
            \E t1 \in TimedOut(st) :
               /\ wire' = Append(wire, REvent(1, IF st = "OK" THEN <<r[1]>> ELSE <<>>, st))
               /\ now' = t1
               /\ IF st = "OK"
                  THEN /\ buf' = <<r[1]>> \o (IF buf = <<>> THEN <<>> ELSE Tail(buf))
                       /\ stack' = <<"resync", "gl_rs2">> \o Rest
                       /\ rv' = rv /\ rs' = [t0 |-> t1]
                       /\ gl' = gl
                       /\ Answer(gl.cmd, r)
                  ELSE /\ stack' = Rest /\ rv' = "UNKNOWN"
                       /\ UNCHANGED <<buf, rs, gl, device, off>>
               /\ UNCHANGED <<res, ack>>
    /\ UNCHANGED <<port, serial, main, heap, stm, call, out>>

\* the command sent again whatever stm32_resync returned
gl_rs2_always ==
    /\ Top = "gl_rs2"
    /\ gl' = [gl EXCEPT !.len = IF buf = <<>> THEN 0 ELSE buf[1]]
    /\ stm32_send_command(<<"gl_sent3">> \o Rest, gl.cmd)
    /\ UNCHANGED <<port, serial, main, heap, stm, call, rs, buf, out, device, off>>

\* the final read keeps the caller's guess
gl_rs2_guess ==
    /\ Top = "gl_rs2"
    /\ IF rv # "OK" THEN Pop("UNKNOWN") /\ gl' = gl
       ELSE /\ gl' = gl
            /\ stm32_send_command(<<"gl_sent3">> \o Rest, gl.cmd)
    /\ UNCHANGED <<port, serial, main, heap, stm, call, rs, buf, out, device, off>>

\* lines 329-334: after the second resync, len = data[0], send again
gl_rs2 ==
    /\ Top = "gl_rs2"
    /\ IF rv # "OK" THEN Pop("UNKNOWN") /\ gl' = gl
       ELSE /\ gl' = [gl EXCEPT !.len = buf[1]]
            /\ stm32_send_command(<<"gl_sent3">> \o Rest, gl.cmd)
    /\ UNCHANGED <<port, serial, main, heap, stm, call, rs, buf, out, device, off>>

\* lines 333-338: the final read of len + 2 bytes
gl_sent3 ==
    /\ Top = "gl_sent3"
    /\ IF rv # "OK" THEN Pop("UNKNOWN") /\ buf' = buf
       ELSE \E st \in ReadStatus :
            \E r \in (IF st = "OK" THEN {x \in Replies(gl.cmd) : x[1] = gl.len} ELSE {<<0>>}) :
            \E t1 \in TimedOut(st) :
               /\ wire' = Append(wire, REvent(gl.len + 2, IF st = "OK" THEN r ELSE <<>>, st))
               /\ now' = t1
               /\ buf' = IF st = "OK" THEN r ELSE buf
               /\ stack' = Rest
               /\ rv' = IF st = "OK" THEN "OK" ELSE "UNKNOWN"
               /\ UNCHANGED <<res, ack>>
    /\ UNCHANGED <<port, serial, main, heap, stm, call, gl, rs, out, device, off>>

\* ------------------------------------------------------------- stm32_init
\* the opcode met last wins
newer_last(prev, a) == a

\* find newer command by higher code
newer(prev, a) == IF prev = STM32_CMD_ERR THEN a ELSE IF prev > a THEN prev ELSE a

\* the switch of lines 443-492 for one opcode of the GET reply
Latch(cmd, val) ==
    IF val = STM32_CMD_GET THEN [cmd EXCEPT !.get = val]
    ELSE IF val = STM32_CMD_GVR THEN [cmd EXCEPT !.gvr = val]
    ELSE IF val = STM32_CMD_GID THEN [cmd EXCEPT !.gid = val]
    ELSE IF val = STM32_CMD_RM THEN [cmd EXCEPT !.rm = val]
    ELSE IF val = STM32_CMD_GO THEN [cmd EXCEPT !.go = val]
    ELSE IF val \in {STM32_CMD_WM, STM32_CMD_WM_NS} THEN [cmd EXCEPT !.wm = newer(@, val)]
    ELSE IF val \in {STM32_CMD_ER, STM32_CMD_EE, STM32_CMD_EE_NS} THEN [cmd EXCEPT !.er = newer(@, val)]
    ELSE IF val \in {STM32_CMD_WP, STM32_CMD_WP_NS} THEN [cmd EXCEPT !.wp = newer(@, val)]
    ELSE IF val \in {STM32_CMD_UW, STM32_CMD_UW_NS} THEN [cmd EXCEPT !.uw = newer(@, val)]
    ELSE IF val \in {STM32_CMD_RP, STM32_CMD_RP_NS} THEN [cmd EXCEPT !.rp = newer(@, val)]
    ELSE IF val \in {STM32_CMD_UR, STM32_CMD_UR_NS} THEN [cmd EXCEPT !.ur = newer(@, val)]
    ELSE IF val = STM32_CMD_CRC THEN [cmd EXCEPT !.crc = newer(@, val)]
    ELSE cmd

\* the loop of lines 441-493: for (i = 1; i < len; i++) val = buf[i + 1];
\* b is the buffer, b[1] being the C buf[0]
RECURSIVE ParseGet(_, _, _, _)
ParseGet(cmd, b, i, len) ==
    IF i < len THEN ParseGet(Latch(cmd, b[i + 2]), b, i + 1, len) ELSE cmd

\* the scan stops at the entry it starts from
Lookup_first(d, pid) == d

\* lines 529-531: index of the first catalog entry whose id is 0 or pid
RECURSIVE Lookup(_, _)
Lookup(d, pid) ==
    IF devices[d].id # 0 /\ devices[d].id # pid THEN Lookup(d + 1, pid) ELSE d

\* stm32_init returns NULL, after stm32_close(stm) or without it
InitFail(close) ==
    /\ stack' = <<>>
    /\ res' = "NULL"
    /\ heap' = IF close THEN "freed" ELSE heap
    /\ UNCHANGED <<rv, wire, now, ack>>

\* lines 401-411: allocation, then the init sequence or the GVR command
stm32_init(init) ==
    /\ stack = <<>> /\ res = "none" /\ heap = "none"
    /\ call' = [NoCall EXCEPT !.op = "init", !.len = init]
    /\ heap' = "allocated"
    /\ stm' = StmFresh
    /\ IF "CMD_INIT" \in port.flags /\ init # 0
       THEN \E st \in WriteStatus :
               /\ wire' = Append(wire, WEvent(<<STM32_CMD_INIT>>, st))
               /\ IF st = "OK"
                  THEN stack' = <<"is_read1", "init_seq">> /\ rv' = rv
                  ELSE stack' = <<"init_seq">> /\ rv' = "UNKNOWN"
               /\ UNCHANGED <<res, now, ack>>
       ELSE stm32_send_command(<<"init_gvr">>, STM32_CMD_GVR)
    /\ UNCHANGED <<port, serial, main, gl, rs, buf, out, device, off>>

\* stm32_send_init_seq, lines 363-374: the reply to the first 0x7F
is_read1 ==
    /\ Top = "is_read1"
    /\ \E st \in ReadStatus :
       \E byte \in (IF st = "OK" THEN AckBytes ELSE {0}) :
       \E t1 \in TimedOut(st) :
          /\ wire' = Append(wire, REvent(1, IF st = "OK" THEN <<byte>> ELSE <<>>, st))
          /\ now' = t1
          /\ IF st = "OK" /\ byte = STM32_ACK THEN stack' = Rest /\ rv' = "OK" /\ Spend(0)
             ELSE IF st = "OK" /\ byte = STM32_NACK THEN stack' = Rest /\ rv' = "OK" /\ Spend(1)
             ELSE IF st # "TIMEDOUT" THEN stack' = Rest /\ rv' = "UNKNOWN" /\ Spend(0)
             ELSE stack' = <<"is_write2">> \o Rest /\ rv' = rv /\ Spend(1)
          /\ UNCHANGED <<res, ack>>
    /\ UNCHANGED <<port, serial, main, heap, stm, call, gl, rs, buf, out>>

\* lines 380-384: the second 0x7F
is_write2 ==
    /\ Top = "is_write2"
    /\ \E st \in WriteStatus :
          /\ wire' = Append(wire, WEvent(<<STM32_CMD_INIT>>, st))
          /\ IF st = "OK"
             THEN stack' = <<"is_read2">> \o Rest /\ rv' = rv
             ELSE stack' = Rest /\ rv' = "UNKNOWN"
          /\ UNCHANGED <<res, now, ack>>
    /\ UNCHANGED <<port, serial, main, heap, stm, call, gl, rs, buf, out, device, off>>

\* an ACK to the second 0x7F is taken as well
is_read2_ack ==
    /\ Top = "is_read2"
    /\ \E st \in ReadStatus :
       \E byte \in (IF st = "OK" THEN AckBytes ELSE {0}) :
       \E t1 \in TimedOut(st) :
          /\ wire' = Append(wire, REvent(1, IF st = "OK" THEN <<byte>> ELSE <<>>, st))
          /\ now' = t1
          /\ stack' = Rest
          /\ rv' = IF st = "OK" /\ byte \in {STM32_ACK, STM32_NACK} THEN "OK" ELSE "UNKNOWN"
          /\ UNCHANGED <<res, ack>>
    /\ UNCHANGED <<port, serial, main, heap, stm, call, gl, rs, buf, out, device, off>>

\* lines 385-390: the reply to the second 0x7F
is_read2 ==
    /\ Top = "is_read2"
    /\ \E st \in ReadStatus :
       \E byte \in (IF st = "OK" THEN AckBytes ELSE {0}) :
       \E t1 \in TimedOut(st) :
          /\ wire' = Append(wire, REvent(1, IF st = "OK" THEN <<byte>> ELSE <<>>, st))
          /\ now' = t1
          /\ stack' = Rest
          /\ rv' = IF st = "OK" /\ byte = STM32_NACK THEN "OK" ELSE "UNKNOWN"
          /\ UNCHANGED <<res, ack>>
    /\ UNCHANGED <<port, serial, main, heap, stm, call, gl, rs, buf, out, device, off>>

\* lines 406-411: after stm32_send_init_seq
init_seq ==
    /\ Top = "init_seq"
    /\ IF rv # "OK" THEN InitFail(FALSE)
       ELSE stm32_send_command(<<"init_gvr">>, STM32_CMD_GVR) /\ heap' = heap
    /\ UNCHANGED <<port, serial, main, stm, call, gl, rs, buf, out, device, off>>

\* version and option bytes
GvrReplies == {<<34, 0, 0>>, <<16, 1, 2>>}

\* lines 411-423: after the GVR command, read the version bytes
init_gvr ==
    /\ Top = "init_gvr"
    /\ IF rv # "OK" THEN InitFail(TRUE) /\ UNCHANGED <<stm, buf, device, off>>
       ELSE LET len == IF "GVR_ETX" \in port.flags THEN 3 ELSE 1
            IN \E st \in ReadStatus :
               \E r \in (IF st = "OK" THEN GvrReplies ELSE {<<0>>}) :
               \E t1 \in TimedOut(st) :
                  /\ wire' = Append(wire, REvent(len, IF st = "OK" THEN Take(r, len) ELSE <<>>, st))
                  /\ now' = t1
                  /\ IF st # "OK"
                     THEN /\ stack' = <<>> /\ res' = "NULL"
                          /\ UNCHANGED <<stm, buf, ack, device, off>>
                     ELSE /\ buf' = Take(r, len)
                          /\ off + (IF r = <<34, 0, 0>> THEN 0 ELSE 1) <= MaxDev
                          /\ off' = off + (IF r = <<34, 0, 0>> THEN 0 ELSE 1)
                          /\ device' = [device EXCEPT !.gvr = r]
                          /\ stm' = [stm EXCEPT
                                !.version = r[1],
                                !.option1 = IF "GVR_ETX" \in port.flags THEN r[2] ELSE 0,
                                !.option2 = IF "GVR_ETX" \in port.flags THEN r[3] ELSE 0]
                          /\ stack' = <<"get_ack", "init_gvr_ack">>
                          /\ ack' = AckEnter(0)
                          /\ res' = res
                  /\ UNCHANGED <<rv, heap>>
    /\ UNCHANGED <<port, serial, main, call, gl, rs, out>>

\* lines 429-435: the reply length to expect from GET
GetGuess ==
    LET hits == {i \in 1..Len(port.cmd_get_reply) : port.cmd_get_reply[i].version = stm.version}
    IN IF hits = {} THEN STM32_CMD_GET_LENGTH
       ELSE port.cmd_get_reply[CHOOSE i \in hits : \A j \in hits : i <= j].length

\* lines 423-436: after the ACK that closes GVR, send GET
init_gvr_ack ==
    /\ Top = "init_gvr_ack"
    /\ IF rv # "OK" THEN InitFail(TRUE) /\ gl' = gl
       ELSE stm32_guess_len_cmd(<<"init_get">>, STM32_CMD_GET, GetGuess) /\ heap' = heap
    /\ UNCHANGED <<port, serial, main, stm, call, rs, buf, out, device, off>>

\* lines 436-496: parse the GET reply, then wait for its ACK
init_get ==
    /\ Top = "init_get"
    /\ IF rv # "OK" THEN InitFail(FALSE) /\ stm' = stm
       ELSE /\ stm' = [stm EXCEPT !.bl_version = buf[2],
                                  !.cmd = ParseGet(@, buf, 1, U8(buf[1] + 1))]
            /\ stack' = <<"get_ack", "init_get_ack">>
            /\ ack' = AckEnter(0)
            /\ UNCHANGED <<rv, res, wire, now, heap>>
    /\ UNCHANGED <<port, serial, main, call, gl, rs, buf, out, device, off>>

\* lines 496-507: the mandatory commands, then GID
init_get_ack ==
    /\ Top = "init_get_ack"
    /\ IF rv # "OK" THEN InitFail(TRUE) /\ gl' = gl
       ELSE IF \/ stm.cmd.get = STM32_CMD_ERR
               \/ stm.cmd.gvr = STM32_CMD_ERR
               \/ stm.cmd.gid = STM32_CMD_ERR
       THEN InitFail(FALSE) /\ gl' = gl
       ELSE stm32_guess_len_cmd(<<"init_gid">>, stm.cmd.gid, 1) /\ heap' = heap
    /\ UNCHANGED <<port, serial, main, stm, call, rs, buf, out, device, off>>

\* the two bytes of the product id taken in the other order
init_gid_swapped ==
    /\ Top = "init_gid"
    /\ IF rv # "OK" THEN InitFail(TRUE) /\ stm' = stm
       ELSE IF U8(buf[1] + 1) < 2 THEN InitFail(TRUE) /\ stm' = stm
       ELSE /\ stm' = [stm EXCEPT !.pid = buf[3] * 256 + buf[2]]
            /\ stack' = <<"get_ack", "init_gid_ack">>
            /\ ack' = AckEnter(0)
            /\ UNCHANGED <<rv, res, wire, now, heap>>
    /\ UNCHANGED <<port, serial, main, call, gl, rs, buf, out, device, off>>

\* lines 507-524: the product id, then wait for the ACK
init_gid ==
    /\ Top = "init_gid"
    /\ IF rv # "OK" THEN InitFail(TRUE) /\ stm' = stm
       ELSE IF U8(buf[1] + 1) < 2 THEN InitFail(TRUE) /\ stm' = stm
       ELSE /\ stm' = [stm EXCEPT !.pid = buf[2] * 256 + buf[3]]
            /\ stack' = <<"get_ack", "init_gid_ack">>
            /\ ack' = AckEnter(0)
            /\ UNCHANGED <<rv, res, wire, now, heap>>
    /\ UNCHANGED <<port, serial, main, call, gl, rs, buf, out, device, off>>

\* lines 524-539: the catalog lookup
init_gid_ack ==
    /\ Top = "init_gid_ack"
    /\ IF rv # "OK" THEN InitFail(TRUE) /\ stm' = stm
       ELSE LET d == Lookup(1, stm.pid)
            IN /\ stm' = [stm EXCEPT !.dev = d]
               /\ IF devices[d].id = 0 THEN InitFail(TRUE)
                  ELSE /\ stack' = <<>>
                       /\ res' = "stm"
                       /\ UNCHANGED <<rv, wire, now, ack, heap>>
    /\ UNCHANGED <<port, serial, main, call, gl, rs, buf, out, device, off>>

Next ==
    \/ stm32_get_ack_timeout
    \/ send_command_ret
    \/ \E a \in Addrs, n \in DataLens : stm32_read_memory(a, n)
    \/ rm_addr
    \/ rm_len
    \/ rm_data
    \/ \E a \in Addrs, d \in WriteData : stm32_write_memory(a, d)
    \/ wm_addr
    \/ wm_data
    \/ wm_done
    \/ stm32_wunprot_memory
    \/ stm32_wprot_memory
    \/ stm32_runprot_memory
    \/ stm32_readprot_memory
    \/ prot_sent
    \/ prot_done
    \/ \E e \in EraseArgs : stm32_erase_memory(e[1], e[2])
    \/ me_sent
    \/ me_done
    \/ pe_sent
    \/ pe_done
    \/ \E a \in Addrs : stm32_go(a)
    \/ go_addr
    \/ go_done
    \/ \E a \in Addrs, n \in CrcLens : stm32_crc_memory(a, n)
    \/ crc_addr
    \/ crc_len
    \/ crc_ack2
    \/ crc_read
    \/ \E a \in Addrs, n \in WrapLens : stm32_crc_wrapper(a, n)
    \/ cw_chunk
    \/ resync_write
    \/ resync_read
    \/ gl_sent
    \/ gl_body
    \/ gl_rs1
    \/ gl_sent2
    \/ gl_rs2
    \/ gl_sent3
    \/ \E init \in {0, 1} : stm32_init(init)
    \/ is_read1
    \/ is_write2
    \/ is_read2
    \/ init_seq
    \/ init_gvr
    \/ init_gvr_ack
    \/ init_get
    \/ init_get_ack
    \/ init_gid
    \/ init_gid_ack

Spec == Init /\ [][Next]_vars

\* ------------------------------------------- stm32_sw_crc on its own
\* buffers handed to stm32_sw_crc: up to one word of the bytes CrcBytes,
\* longer ones of the bytes 00 and FF; lengths off the multiples of 4 too
CrcBytes == {0, 1, 128, 255}
CrcBufs ==
    UNION { [1..n -> IF n <= 4 THEN CrcBytes ELSE {0, 255}] : n \in 0..(4 * MaxCrcWords) }

InitCrc ==
    /\ Init
    /\ port.flags = SerialFlags
    /\ heap = "none"

\* a call stm32_sw_crc(CRC_INIT_VALUE, b, Len(b)); out takes the value returned
sw_crc_call(b) ==
    /\ call.op = "none"
    /\ call' = [NoCall EXCEPT !.op = "sw_crc", !.data = b, !.len = Len(b)]
    /\ out' = <<stm32_sw_crc(CRC_INIT_VALUE, b)>>
    /\ UNCHANGED <<port, serial, main, heap, stm, stack, rv, res, wire, now, ack, gl, rs, buf,
                   device, off>>

NextCrc == \E b \in CrcBufs : sw_crc_call(b)

SpecCrc == InitCrc /\ [][NextCrc]_vars

\* ------------------------------------------------- stm32main, from dispatch
\* the command line once parse_options has read it: the action, -R, and the
\* address of -g; port, session and address range are set up as lines
\* 1404-1503 leave them
AutoReset == {"ACT_READ_PROTECT", "ACT_READ_UNPROTECT", "ACT_WRITE_UNPROTECT"}
MainActions == {"ACT_NONE"} \cup AutoReset
\* no -g, -g 0, -g 0x12345678
ExecAddrs == {<<>>, <<0>>, <<305419896>>}
MainStarts ==
    { [MainIdle EXCEPT !.argv = [action |-> a, R |-> r, g |-> g], !.action = a,
                       !.reset_flag = r,
                       !.exec_flag = IF g = <<>> THEN 0 ELSE 1,
                       !.execute = IF g = <<>> THEN 0 ELSE g[1],
                       !.pc = "action"] :
        a \in MainActions, r \in {0, 1}, g \in ExecAddrs }

\* stm32_init has returned a session, or it has failed and stm32main is at
\* close with stm NULL and ret = 1 (line 1416)
InitMain ==
    /\ port \in Ports
    /\ \/ heap = "allocated" /\ stm \in Sessions /\ main \in MainStarts
       \/ /\ heap = "none" /\ stm = StmFresh
          /\ main \in {[m EXCEPT !.pc = "close"] : m \in MainStarts}
    /\ call = NoCall
    /\ stack = <<>>
    /\ rv = "none"
    /\ res = "none"
    /\ wire = <<>>
    /\ now = 0
    /\ ack = AckIdle
    /\ gl = GlIdle
    /\ rs = RsIdle
    /\ buf = <<>>
    /\ out = <<>>
    /\ device = DeviceIdle
    /\ off = 0
    /\ serial = SerialIdle

\* the protect operation an action runs and the opcode it sends
MainOp(action) ==
    IF action = "ACT_READ_PROTECT" THEN "readprot"
    ELSE IF action = "ACT_READ_UNPROTECT" THEN "runprot"
    ELSE "wunprot"
MainOpcode(action) ==
    IF action = "ACT_READ_PROTECT" THEN stm.cmd.rp
    ELSE IF action = "ACT_READ_UNPROTECT" THEN stm.cmd.ur
    ELSE stm.cmd.uw

\* reset_flag left as the command line set it
ResetFlag_kept(action, flag) == flag

\* reset_flag as the branch of the action leaves it: lines 1540, 1551, 1579
ResetFlag(action, flag) == IF action \in AutoReset THEN 0 ELSE flag

\* a function of the library called by stm32main: it returns NO_CMD at once
\* on an opcode the device lacks, else it sends the opcode; cont is where
\* stm32main goes on
MainCall(op, address, opcode, first, cont) ==
    /\ call' = [NoCall EXCEPT !.op = op, !.address = address]
    /\ IF opcode = STM32_CMD_ERR
       THEN /\ stack' = <<cont>>
            /\ rv' = "NO_CMD"
            /\ UNCHANGED <<res, wire, now, ack>>
       ELSE stm32_send_command(<<first, cont>>, opcode)

\* the branch of the action: a protect action clears reset_flag, then calls
\* its operation; no action leaves ret = 0
main_action ==
    /\ main.pc = "action" /\ stack = <<>>
    /\ main.action \in MainActions
    /\ IF main.action \in AutoReset
       THEN /\ main' = [main EXCEPT !.reset_flag = ResetFlag(main.action, @),
                                    !.pc = "call"]
            /\ MainCall(MainOp(main.action), 0, MainOpcode(main.action),
                        "prot_sent", "main_prot")
       ELSE /\ main' = [main EXCEPT !.ret = 0, !.pc = "close"]
            /\ UNCHANGED <<call, stack, rv, res, wire, now, ack>>
    /\ UNCHANGED <<port, serial, heap, stm, gl, rs, buf, out, device, off>>

\* the protect operation has returned s_err: ret = 0 when it is OK
main_prot ==
    /\ Top = "main_prot"
    /\ stack' = <<>>
    /\ main' = [main EXCEPT !.s_err = rv, !.ret = IF rv = "OK" THEN 0 ELSE @,
                            !.pc = "close"]
    /\ UNCHANGED <<port, serial, heap, stm, call, rv, res, wire, now, ack, gl, rs, buf, out,
                   device, off>>

\* stm32_go is called at close, whatever the action returned
ExecDue_any == heap = "allocated" /\ main.exec_flag = 1

\* the test of line 1711: stm && exec_flag && ret == 0
ExecDue == heap = "allocated" /\ main.exec_flag = 1 /\ main.ret = 0

\* close: with a session, -g and ret = 0 the code is started, at the start
\* of flash when the address given is 0
main_close ==
    /\ main.pc = "close" /\ stack = <<>>
    /\ IF ExecDue
       THEN LET execute == IF main.execute = 0 THEN devices[stm.dev].fl_start
                           ELSE main.execute
            IN /\ main' = [main EXCEPT !.execute = execute, !.pc = "call"]
               /\ MainCall("go", execute, stm.cmd.go, "go_addr", "main_go")
       ELSE /\ main' = [main EXCEPT !.pc = "reset"]
            /\ UNCHANGED <<call, stack, rv, res, wire, now, ack>>
    /\ UNCHANGED <<port, serial, heap, stm, gl, rs, buf, out, device, off>>

\* stm32_go has returned: a started program makes the reset pointless
main_go ==
    /\ Top = "main_go"
    /\ stack' = <<>>
    /\ main' = [main EXCEPT !.go = rv, !.reset_flag = IF rv = "OK" THEN 0 ELSE @,
                            !.pc = "reset"]
    /\ UNCHANGED <<port, serial, heap, stm, call, rv, res, wire, now, ack, gl, rs, buf, out,
                   device, off>>

\* the rest of close: init_bl_exit is called when there is a session and
\* reset_flag is set, and its failure makes ret 1; gpio_seq is never set, so
\* the other branch does nothing; the session is closed and ret returned
main_reset ==
    /\ main.pc = "reset" /\ stack = <<>>
    /\ \E failed \in {0, 1} :
          IF heap = "allocated" /\ main.reset_flag = 1
          THEN main' = [main EXCEPT !.bl_exit = 1,
                                    !.ret = IF failed = 1 THEN 1 ELSE @,
                                    !.pc = "done"]
          ELSE failed = 0 /\ main' = [main EXCEPT !.pc = "done"]
    /\ heap' = IF heap = "allocated" THEN "freed" ELSE heap
    /\ UNCHANGED <<port, serial, stm, call, stack, rv, res, wire, now, ack, gl, rs, buf, out,
                   device, off>>

NextMain ==
    \/ main_action
    \/ main_prot
    \/ main_close
    \/ main_go
    \/ main_reset
    \/ stm32_get_ack_timeout
    \/ send_command_ret
    \/ prot_sent
    \/ prot_done
    \/ go_addr
    \/ go_done

SpecMain == InitMain /\ [][NextMain]_vars

\* --------------------------------------------- stm32main, the write branch
\* -w with -e 0, so that nothing is erased, and -F rx:tx; retry counts up to
\* MaxRetry, and the default with a file of one chunk; the input file holds
\* size bytes, which the parser hands out as asked
FrameOpts == {<<20, 6>>, <<20, 30>>}
WriteOpts ==
    { [WriteIdle EXCEPT !.verify = v, !.retry = n, !.rx = f[1], !.tx = f[2],
                        !.file = Pat(z)] :
        v \in {0, 1}, n \in (0..MaxRetry) \cup {DefaultRetry}, f \in FrameOpts,
        z \in {4, 8, 24} }
WriteStarts ==
    { [MainIdle EXCEPT !.argv = [action |-> "ACT_WRITE", R |-> 0, g |-> <<>>],
                       !.action = "ACT_WRITE", !.pc = "action", !.w = o] :
        o \in { x \in WriteOpts :
                  /\ x.retry = DefaultRetry => Len(x.file) = 4
                  /\ x.tx = 6 => Len(x.file) <= 8 } }

\* a session on the serial port; the device answers on the expected course
\* or fails the transfer
InitWrite ==
    /\ port \in {p \in Ports : "BYTE" \in p.flags}
    /\ heap = "allocated"
    /\ stm \in {x \in Sessions : x.cmd \in {CmdExt, CmdMin} /\ x.dev = 1}
    /\ call = NoCall
    /\ stack = <<>>
    /\ rv = "none"
    /\ res = "none"
    /\ wire = <<>>
    /\ now = 0
    /\ ack = AckIdle
    /\ gl = GlIdle
    /\ rs = RsIdle
    /\ buf = <<>>
    /\ out = <<>>
    /\ device = DeviceIdle
    /\ off = MaxDev
    /\ main \in WriteStarts
    /\ serial = SerialIdle

\* a function of the library returns r at once; stm32main goes on at cont
MainGets(cont, r) ==
    /\ stack' = <<cont>>
    /\ rv' = r
    /\ UNCHANGED <<res, wire, now, ack>>

\* the chunk is verified after retry + 1 failures
VerifyFailed_late(failed, retry) == failed > retry

\* the test of line 1669
VerifyFailed(failed, retry) == failed = retry

\* again: stm32_write_memory(stm, addr, buffer, len), lines 1645 and 592-615
WriteCall(m) ==
    /\ main' = [m EXCEPT !.pc = "call", !.w.log = Append(@, <<m.w.addr, m.w.buffer>>)]
    /\ call' = [NoCall EXCEPT !.op = "write_memory", !.address = m.w.addr,
                              !.len = m.w.len, !.data = m.w.buffer]
    /\ IF m.w.len = 0 THEN MainGets("main_written", "OK")
       ELSE IF m.w.len > 256 THEN MainGets("main_written", "UNKNOWN")
       ELSE IF m.w.addr % 4 # 0 THEN MainGets("main_written", "UNKNOWN")
       ELSE IF stm.cmd.wm = STM32_CMD_ERR THEN MainGets("main_written", "NO_CMD")
       ELSE stm32_send_command(<<"wm_addr", "main_written">>, stm.cmd.wm)

\* stm32_read_memory(stm, addr + offset, compare + offset, rlen): lines
\* 1657-1659 and 553-560
ReadCall(m) ==
    LET rlen == Min(m.w.len - m.w.voff, m.w.max_rlen)
    IN /\ main' = [m EXCEPT !.pc = "call"]
       /\ call' = [NoCall EXCEPT !.op = "read_memory", !.address = m.w.addr + m.w.voff,
                                 !.len = rlen]
       /\ IF rlen = 0 THEN MainGets("main_readback", "OK")
          ELSE IF rlen > 256 THEN MainGets("main_readback", "UNKNOWN")
          ELSE IF stm.cmd.rm = STM32_CMD_ERR THEN MainGets("main_readback", "NO_CMD")
          ELSE stm32_send_command(<<"rm_addr", "main_readback">>, stm.cmd.rm)

\* the chunk is done: lines 1683-1684
Advance(m) ==
    [m EXCEPT !.w.addr = @ + m.w.len, !.w.offset = @ + m.w.len, !.pc = "chunk"]

\* head of the branch: the chunk sizes, the size of the input, addr = start;
\* without -S and with -e 0 start and end are the bounds of the flash
main_write ==
    /\ main.pc = "action" /\ stack = <<>>
    /\ main.action = "ACT_WRITE"
    /\ LET max_wlen == ((main.w.tx - 2) \div 4) * 4
       IN main' = [main EXCEPT !.w.max_wlen = max_wlen,
                               !.w.max_rlen = Min(main.w.rx, max_wlen),
                               !.w.size = Len(main.w.file),
                               !.w.addr = devices[stm.dev].fl_start,
                               !.w.end = devices[stm.dev].fl_end,
                               !.w.offset = 0,
                               !.pc = "chunk"]
    /\ UNCHANGED <<port, serial, heap, stm, call, stack, rv, res, wire, now, ack, gl, rs, buf,
                   out, device, off>>

\* head of the loop: the next chunk is taken from the input and written, or
\* the branch ends with ret = 0
main_chunk ==
    /\ main.pc = "chunk" /\ stack = <<>>
    /\ IF main.w.addr < main.w.end /\ main.w.offset < main.w.size
       THEN LET left == main.w.end - main.w.addr
                len == Min(Min(main.w.max_wlen, left), main.w.size - main.w.offset)
                buffer == SubSeq(main.w.file, main.w.offset + 1, main.w.offset + len)
            IN WriteCall([main EXCEPT !.w.len = len, !.w.buffer = buffer])
       ELSE /\ main' = [main EXCEPT !.ret = 0, !.pc = "close"]
            /\ UNCHANGED <<call, stack, rv, res, wire, now, ack>>
    /\ UNCHANGED <<port, serial, heap, stm, gl, rs, buf, out, device, off>>

\* stm32_write_memory has returned: with -v the chunk is read back
main_written ==
    /\ Top = "main_written"
    /\ IF rv # "OK"
       THEN /\ main' = [main EXCEPT !.s_err = rv, !.pc = "close"]
            /\ stack' = <<>>
            /\ UNCHANGED <<call, rv, res, wire, now, ack>>
       ELSE IF main.w.verify = 1
       THEN ReadCall([main EXCEPT !.w.compare = <<>>, !.w.voff = 0])
       ELSE /\ main' = Advance(main)
            /\ stack' = <<>>
            /\ UNCHANGED <<call, rv, res, wire, now, ack>>
    /\ UNCHANGED <<port, serial, heap, stm, gl, rs, buf, out, device, off>>

\* stm32_read_memory has returned: the next piece is read, or the chunk is
\* complete
main_readback ==
    /\ Top = "main_readback"
    /\ IF rv # "OK"
       THEN /\ main' = [main EXCEPT !.s_err = rv, !.pc = "close"]
            /\ stack' = <<>>
            /\ UNCHANGED <<call, rv, res, wire, now, ack>>
       ELSE LET m == [main EXCEPT !.w.compare = @ \o buf, !.w.voff = @ + call.len]
            IN IF m.w.voff < m.w.len
               THEN ReadCall(m)
               ELSE /\ main' = [m EXCEPT !.pc = "compare"]
                    /\ stack' = <<>>
                    /\ UNCHANGED <<call, rv, res, wire, now, ack>>
    /\ UNCHANGED <<port, serial, heap, stm, gl, rs, buf, out, device, off>>

\* the comparison of lines 1667-1681: a chunk that differs is written again
\* unless failed has reached retry
main_compare ==
    /\ main.pc = "compare" /\ stack = <<>>
    /\ IF main.w.buffer # main.w.compare
       THEN IF VerifyFailed(main.w.failed, main.w.retry)
            THEN /\ main' = [main EXCEPT !.s_err = "verify", !.pc = "close"]
                 /\ UNCHANGED <<call, stack, rv, res, wire, now, ack>>
            ELSE WriteCall([main EXCEPT !.w.failed = @ + 1])
       ELSE /\ main' = Advance([main EXCEPT !.w.failed = 0])
            /\ UNCHANGED <<call, stack, rv, res, wire, now, ack>>
    /\ UNCHANGED <<port, serial, heap, stm, gl, rs, buf, out, device, off>>

NextWrite ==
    \/ main_write
    \/ main_chunk
    \/ main_written
    \/ main_readback
    \/ main_compare
    \/ main_close
    \/ main_reset
    \/ stm32_get_ack_timeout
    \/ send_command_ret
    \/ wm_addr
    \/ wm_data
    \/ wm_done
    \/ rm_addr
    \/ rm_len
    \/ rm_data

SpecWrite == InitWrite /\ [][NextWrite]_vars

\* ------------------------------------------------------ stm32_run_raw_code
\* the stack pointer put at the head of the staging buffer: 0x20002000
RawStack == 536879104
stm_reset_code == <<1, 73, 2, 74, 10, 96, 254, 231, 12, 237, 0, 224, 4, 0, 250, 5>>
\* the four bytes of a word in memory, least significant first
le_u32(x) == <<x % 256, (x \div 256) % 256, (x \div 65536) % 256, (x \div 16777216) % 256>>
\* code of n bytes: the reset stub, or longer code that takes two chunks
RawCode(n) == IF n = Len(stm_reset_code) THEN stm_reset_code ELSE Pat(n)
RawSizes == {Len(stm_reset_code), 248, 250, 504}
\* the start of the RAM of the device, as stm32_reset_device passes it, and
\* an address that is not a multiple of 4
RawTargets == {devices[stm.dev].ram_start, devices[stm.dev].ram_start + 2}
\* mem: lines 940-942
RawMem(target, n) == le_u32(RawStack) \o le_u32(target + 8 + 1) \o RawCode(n)

\* call.args keeps target_address and code_size, call.address and call.length
\* are address and length, call.len and call.data the chunk at pos
\* lines 947-948: stm32_write_memory(stm, address, pos, w)
RawChunk(c) ==
    LET w == IF c.length > 256 THEN 256 ELSE c.length
        pos == (c.args[2] + 8) - c.length
        data == SubSeq(RawMem(c.args[1], c.args[2]), pos + 1, pos + w)
    IN /\ call' = [c EXCEPT !.len = w, !.data = data]
       /\ IF w = 0 THEN MainGets("rr_written", "OK")
          ELSE IF w > 256 THEN MainGets("rr_written", "UNKNOWN")
          ELSE IF c.address % 4 # 0 THEN MainGets("rr_written", "UNKNOWN")
          ELSE IF stm.cmd.wm = STM32_CMD_ERR THEN MainGets("rr_written", "NO_CMD")
          ELSE stm32_send_command(<<"wm_addr", "rr_written">>, stm.cmd.wm)

\* lines 923-948: the test of the target, the staging buffer, the first chunk
stm32_run_raw_code(target_address, code_size) ==
    /\ stack = <<>> /\ res = "none" /\ heap = "allocated"
    /\ LET c == [NoCall EXCEPT !.op = "run_raw_code",
                               !.args = <<target_address, code_size>>,
                               !.address = target_address,
                               !.length = code_size + 8]
       IN IF target_address % 4 # 0 THEN call' = c /\ Ret("UNKNOWN")
          ELSE RawChunk(c)
    /\ UNCHANGED <<port, serial, main, heap, stm, gl, rs, buf, out, device, off>>

\* stm32_go is called whatever stm32_write_memory returned
rr_written_anyway ==
    /\ Top = "rr_written"
    /\ LET c == [call EXCEPT !.address = @ + call.len, !.length = @ - call.len]
       IN IF rv = "OK" /\ c.length > 0 THEN RawChunk(c)
          ELSE /\ call' = [c EXCEPT !.address = c.args[1]]
               /\ IF stm.cmd.go = STM32_CMD_ERR THEN Ret("NO_CMD")
                  ELSE stm32_send_command(<<"go_addr">>, stm.cmd.go)
    /\ UNCHANGED <<port, serial, main, heap, stm, gl, rs, buf, out, device, off>>

\* lines 948-959: after stm32_write_memory: the next chunk, or stm32_go
rr_written ==
    /\ Top = "rr_written"
    /\ IF rv # "OK" THEN Ret("UNKNOWN") /\ call' = call
       ELSE LET c == [call EXCEPT !.address = @ + call.len, !.length = @ - call.len]
            IN IF c.length > 0 THEN RawChunk(c)
               ELSE /\ call' = [c EXCEPT !.address = c.args[1]]
                    /\ IF stm.cmd.go = STM32_CMD_ERR THEN Ret("NO_CMD")
                       ELSE stm32_send_command(<<"go_addr">>, stm.cmd.go)
    /\ UNCHANGED <<port, serial, main, heap, stm, gl, rs, buf, out, device, off>>

InitRaw ==
    /\ port \in Ports
    /\ heap = "allocated"
    /\ stm \in {x \in Sessions : x.dev = 1}
    /\ call = NoCall
    /\ stack = <<>>
    /\ rv = "none"
    /\ res = "none"
    /\ wire = <<>>
    /\ now = 0
    /\ ack = AckIdle
    /\ gl = GlIdle
    /\ rs = RsIdle
    /\ buf = <<>>
    /\ out = <<>>
    /\ device = DeviceIdle
    /\ off = 0
    /\ main = MainIdle
    /\ serial = SerialIdle

NextRaw ==
    \/ \E t \in RawTargets : \E n \in RawSizes : stm32_run_raw_code(t, n)
    \/ rr_written
    \/ stm32_get_ack_timeout
    \/ send_command_ret
    \/ wm_addr
    \/ wm_data
    \/ wm_done
    \/ go_addr
    \/ go_done

SpecRaw == InitRaw /\ [][NextRaw]_vars

\* ------------------------------- the reader thread and a bootloader session
\* Each step of ThreadFn is one access to what it shares with the session:
\* m_direct and the file descriptor. m_direct is a plain bool written by the
\* session thread without synchronisation, so a read of it by ThreadFn
\* yields the value last written or the one the thread saw before.
InitThread ==
    /\ Init
    /\ port.flags = SerialFlags
    /\ heap = "none"

Others == <<port, heap, stm, call, stack, rv, res, wire, now, ack, gl, rs, buf, out,
            device, off, main>>

\* ThreadFn, lines 52-61: the tests at the head of the loop
thread_check ==
    /\ serial.thread = "while"
    /\ \E d \in {serial.m_direct, serial.view} :
          serial' = [serial EXCEPT !.view = d,
                                   !.thread = IF d THEN "while" ELSE "select"]
    /\ UNCHANGED Others

\* lines 63-70: select returns with the descriptor readable, or after 100 ms
thread_select ==
    /\ serial.thread = "select"
    /\ serial' = [serial EXCEPT !.thread = IF serial.fd # <<>> THEN "read" ELSE "while"]
    /\ UNCHANGED Others

\* lines 71-77: read of up to 1023 bytes, written to the console
thread_read ==
    /\ serial.thread = "read"
    /\ serial' = [serial EXCEPT !.fd = <<>>,
                                !.console = @ \o serial.fd,
                                !.stolen = IF serial.m_direct THEN @ + Len(serial.fd) ELSE @,
                                !.thread = "while"]
    /\ UNCHANGED Others

\* serial_open with ops->device = "direct": setDirect, then the line mode
serial_open ==
    /\ serial.session = "closed"
    /\ serial' = [serial EXCEPT !.m_direct = TRUE, !.session = "open"]
    /\ UNCHANGED Others

\* serial_read of the session: timedRead takes what waits on the descriptor,
\* up to nbyte bytes
session_read(nbyte) ==
    /\ serial.session = "open"
    /\ serial.fd # <<>>
    /\ LET k == IF Len(serial.fd) < nbyte THEN Len(serial.fd) ELSE nbyte
       IN serial' = [serial EXCEPT !.engine = @ \o SubSeq(serial.fd, 1, k),
                                   !.fd = SubSeq(serial.fd, k + 1, Len(serial.fd))]
    /\ UNCHANGED Others

\* serial_close: setIndirect
serial_close ==
    /\ serial.session = "open"
    /\ serial' = [serial EXCEPT !.m_direct = FALSE, !.session = "done"]
    /\ UNCHANGED Others

\* a byte from the device reaches the descriptor: a reply to the session
\* while it is open, console output otherwise
device_sends ==
    /\ serial.sent < MaxSent
    /\ serial' = [serial EXCEPT !.sent = @ + 1,
                                !.fd = Append(@, IF serial.session = "open" THEN "r" ELSE "c")]
    /\ UNCHANGED Others

NextThread ==
    \/ thread_check
    \/ thread_select
    \/ thread_read
    \/ serial_open
    \/ \E n \in 1..MaxSent : session_read(n)
    \/ serial_close
    \/ device_sends

SpecThread == InitThread /\ [][NextThread]_vars

\* ---------------------------------------------- the page helpers on their own
\* page-size tables: up to MaxPsLen sizes, closed by 0
PageSizes == {1, 2, 4}
FlPs == { t \o <<0>> : t \in UNION { [1..n -> PageSizes] : n \in 1..MaxPsLen } }
\* devices with flash at the base of the catalog's devices, of 1..MaxFlash
\* bytes, so that the last page may be cut short; and the catalog's devices
FlashDevs ==
    { [id |-> 0, flags |-> {}, fl_start |-> devices[1].fl_start,
       fl_end |-> devices[1].fl_start + n, fl_ps |-> ps, ram_start |-> 0] :
        ps \in FlPs, n \in 1..MaxFlash }
    \cup {devices[1], devices[2]}
\* addresses: all from below to above a small flash; around the ends and the
\* first page boundary of a large one, and the ends of the address range
FlashAddrs(d) ==
    IF d.fl_end - d.fl_start <= MaxFlash + 1
    THEN (d.fl_start - 2)..(d.fl_end + 2)
    ELSE { b + e : b \in {d.fl_start, d.fl_start + d.fl_ps[1], d.fl_end},
                   e \in {-1, 0, 1} } \cup {0, 2147483646}

InitFlash ==
    /\ Init
    /\ port.flags = SerialFlags
    /\ heap = "none"

\* the helpers called with stm->dev = d: out takes the floor page of addr,
\* its ceil page, and the addresses of the floor page and of the next
flash_call(d, addr) ==
    /\ call.op = "none"
    /\ call' = [NoCall EXCEPT !.op = "flash", !.address = addr, !.args = <<d>>]
    /\ LET p == flash_addr_to_page_floor(d, addr)
       IN out' = <<p, flash_addr_to_page_ceil(d, addr),
                   flash_page_to_addr(d, p), flash_page_to_addr(d, p + 1)>>
    /\ UNCHANGED <<port, serial, main, heap, stm, stack, rv, res, wire, now, ack, gl, rs, buf,
                   device, off>>

NextFlash == \E d \in FlashDevs : \E a \in FlashAddrs(d) : flash_call(d, a)

SpecFlash == InitFlash /\ [][NextFlash]_vars

\* ------------------------------------- the waits of the engine, run for ever
\* stm32_get_ack_timeout and stm32_resync with a device that may answer
\* without end. To keep the states finite wire holds the last transfer only,
\* off is the number of transfers so far modulo 2, and the clock stops at
\* ClockEnd, past every deadline of the two functions.
ClockEnd == STM32_RESYNC_TIMEOUT + ReadTimeoutSecs
Clock(t) == IF t > ClockEnd THEN ClockEnd ELSE t
\* timeouts the callers of stm32_get_ack_timeout pass
WaitTimeouts ==
    {0, STM32_BLKWRITE_TIMEOUT, STM32_PAGEERASE_TIMEOUT, STM32_MASSERASE_TIMEOUT}

InitLive ==
    /\ port \in Ports
    /\ heap = "allocated"
    /\ stm \in {s \in Sessions : s.cmd = CmdExt /\ s.dev = 1}
    /\ call = NoCall
    /\ rv = "none"
    /\ res = "none"
    /\ wire = <<>>
    /\ now = 0
    /\ gl = GlIdle
    /\ buf = <<>>
    /\ out = <<>>
    /\ device = DeviceIdle
    /\ off = 0
    /\ main = MainIdle
    /\ serial = SerialIdle
    /\ \/ /\ stack = <<"get_ack">>
          /\ \E timeout \in WaitTimeouts : ack = AckEnter(timeout)
          /\ rs = RsIdle
       \/ /\ stack = <<"resync">>
          /\ ack = AckIdle
          /\ rs = [t0 |-> now]

\* one pass of the loop of stm32_get_ack_timeout: lines 198-219
ack_wait ==
    /\ Top = "get_ack"
    /\ \E st \in ReadStatus :
       \E byte \in (IF st = "OK" THEN AckBytes ELSE {0}) :
          LET t1 == IF st = "TIMEDOUT" THEN Clock(now + ReadTimeoutSecs) ELSE now
              d == AckDecide(st, byte, ack.tmo, ack.t0, t1)
          IN /\ wire' = <<REvent(1, IF st = "OK" THEN <<byte>> ELSE <<>>, st)>>
             /\ now' = t1
             /\ off' = 1 - off
             /\ IF d = "AGAIN"
                THEN UNCHANGED <<stack, rv, ack>>
                ELSE /\ ack' = AckIdle
                     /\ stack' = Rest
                     /\ rv' = d
    /\ UNCHANGED <<port, serial, main, heap, stm, call, res, gl, rs, buf, out, device>>

\* head of the loop of stm32_resync and its write: lines 265-271
resync_send ==
    /\ Top = "resync"
    /\ IF ~(now < rs.t0 + STM32_RESYNC_TIMEOUT)
       THEN /\ stack' = Rest /\ rv' = "UNKNOWN" /\ rs' = RsIdle
            /\ UNCHANGED <<wire, now, off>>
       ELSE \E st \in WriteStatus :
               /\ wire' = <<WEvent(<<STM32_CMD_ERR, Xor(STM32_CMD_ERR, 255)>>, st)>>
               /\ off' = 1 - off
               /\ rs' = rs
               /\ rv' = rv
               /\ IF st = "OK"
                  THEN stack' = <<"resync_read">> \o Rest /\ now' = now
                  ELSE stack' = stack /\ now' \in {now, Clock(now + 1)}
    /\ UNCHANGED <<port, serial, main, heap, stm, call, res, ack, gl, buf, out, device>>

\* the read of stm32_resync: lines 272-279
resync_recv ==
    /\ Top = "resync_read"
    /\ \E st \in ReadStatus :
       \E byte \in (IF st = "OK" THEN AckBytes ELSE {0}) :
       \E t1 \in (IF st = "TIMEDOUT" THEN {Clock(now + d) : d \in TimeoutTicks}
                  ELSE {now}) :
          /\ wire' = <<REvent(1, IF st = "OK" THEN <<byte>> ELSE <<>>, st)>>
          /\ now' = t1
          /\ off' = 1 - off
          /\ IF st = "OK" /\ byte = STM32_NACK
             THEN stack' = Rest /\ rv' = "OK" /\ rs' = RsIdle
             ELSE stack' = <<"resync">> \o Rest /\ rv' = rv /\ rs' = rs
    /\ UNCHANGED <<port, serial, main, heap, stm, call, res, ack, gl, buf, out, device>>

\* a second of the wall clock passes while a wait is on
tick ==
    /\ stack # <<>>
    /\ now < ClockEnd
    /\ now' = now + 1
    /\ UNCHANGED <<port, serial, main, heap, stm, call, stack, rv, res, wire, ack, gl, rs, buf,
                   out, device, off>>

NextLive ==
    \/ ack_wait
    \/ resync_send
    \/ resync_recv
    \/ tick

\* every transfer returns and the clock goes on
SpecLive ==
    /\ InitLive
    /\ [][NextLive]_vars
    /\ WF_vars(ack_wait)
    /\ WF_vars(resync_send)
    /\ WF_vars(resync_recv)
    /\ WF_vars(tick)

\* ------------------------------------------------ serial_read on its own
\* the wait of serial_read, milliseconds
SerialReadMs == 2000
\* the device sends its bytes in bursts [t, k]: k bytes reach the host t ms
\* after serial_read was called, or were waiting there when t = 0
BurstTimes == {0, 500, 1999, 2000, 2500}
Bursts ==
    {<<>>}
    \cup { <<[t |-> t1, k |-> k1]>> : t1 \in BurstTimes, k1 \in 1..(MaxRead + 1) }
    \cup { b \in { <<[t |-> t1, k |-> k1], [t |-> t2, k |-> k2]>> :
                       t1 \in BurstTimes, t2 \in BurstTimes,
                       k1 \in 1..MaxRead, k2 \in 1..MaxRead } : b[1].t < b[2].t }

\* SerialPort::timedRead(buf, len, ms): select waits up to ms for the first
\* byte, then one read takes what is there, at most len bytes; the value is
\* <<bytes read or -1, ms spent>>
timedRead(len, bursts, ms) ==
    IF len = 0 THEN <<-1, 0>>
    ELSE IF bursts = <<>> \/ bursts[1].t >= ms THEN <<-1, ms>>
    ELSE <<Min(len, bursts[1].k), bursts[1].t>>

\* serial_read: PORT_ERR_UNKNOWN without a port, PORT_ERR_TIMEDOUT unless
\* timedRead brought all nbyte bytes
serial_read(h, nbyte, bursts) ==
    IF h = "NULL" THEN <<"ERR", 0, 0>>
    ELSE LET r == timedRead(nbyte, bursts, SerialReadMs)
         IN <<IF r[1] # nbyte THEN "TIMEDOUT" ELSE "OK", r[1], r[2]>>

InitSerial ==
    /\ Init
    /\ port.flags = SerialFlags
    /\ heap = "none"

\* a call of serial_read: out takes <<status, bytes read, ms spent>>
serial_read_call(h, nbyte, bursts) ==
    /\ call.op = "none"
    /\ call' = [NoCall EXCEPT !.op = "serial_read", !.len = nbyte, !.args = <<h, bursts>>]
    /\ out' = serial_read(h, nbyte, bursts)
    /\ UNCHANGED <<port, serial, main, heap, stm, stack, rv, res, wire, now, ack, gl, rs, buf,
                   device, off>>

NextSerial ==
    \E h \in {"NULL", "open"}, n \in 0..MaxRead, b \in Bursts : serial_read_call(h, n, b)

SpecSerial == InitSerial /\ [][NextSerial]_vars


\* ------------------------------------------------------------- properties
IsWrite(e) == e.k = "W"
IsRead(e) == e.k = "R"
\* the port->write calls so far, in order
WriteEvents == SelectSeq(wire, IsWrite)
ReadEvents == SelectSeq(wire, IsRead)
Returned == stack = <<>> /\ res # "none"

\* the bytes of f have an even number of ones at every bit position, i.e.
\* the last byte is the XOR of the others
XorClosed(f) ==
    \A k \in 0..7 :
       Cardinality({i \in 1..Len(f) : (f[i] \div (2 ^ k)) % 2 = 1}) % 2 = 0

\* f holds v in 4 bytes, most significant first, and their XOR
Encodes(f, v) ==
    /\ Len(f) = 5
    /\ \A i \in 1..5 : f[i] \in 0..255
    /\ f[1] < 128
    /\ ((f[1] * 256 + f[2]) * 256 + f[3]) * 256 + f[4] = v
    /\ XorClosed(f)

\* C1 as stated: every stm32_write_memory call with an address that is not a
\* multiple of 4 returns STM32_ERR_UNKNOWN and writes no byte to the port.
C1_Original ==
    (call.op = "write_memory" /\ call.address % 4 # 0 /\ Returned)
        => (res = "UNKNOWN" /\ WriteEvents = <<>>)

\* C1 amended: every stm32_write_memory call with len >= 1 and an address
\* that is not a multiple of 4 returns STM32_ERR_UNKNOWN and writes no byte
\* to the port (with len = 0 the call returns STM32_ERR_OK before the test).
C1_UnalignedWrite ==
    (call.op = "write_memory" /\ call.address % 4 # 0 /\ call.len >= 1)
        => (WriteEvents = <<>> /\ (Returned => res = "UNKNOWN"))

C1_Witness ==
    /\ call.op = "write_memory" /\ call.address % 4 # 0
    /\ call.len \in 1..256 /\ stm.cmd.wm # STM32_CMD_ERR
    /\ Returned /\ res = "UNKNOWN" /\ wire = <<>>

\* C2: for 1 <= len <= 256 the data frame stm32_write_memory writes has
\* N + 2 bytes, N the smallest multiple of 4 that is >= len: byte 0 is
\* N - 1, then the len data bytes, then N - len bytes 0xFF, and the last
\* byte is the XOR of byte 0 and the N payload bytes, padding included.
C2_WriteDataFrame ==
    (call.op = "write_memory" /\ Len(WriteEvents) >= 3)
        => LET f == WriteEvents[3].b
               len == call.len
               N == CHOOSE n \in len..(len + 3) : n % 4 = 0
           IN /\ len \in 1..256
              /\ Len(f) = N + 2
              /\ f[1] = N - 1
              /\ \A i \in 1..len : f[i + 1] = call.data[i]
              /\ \A i \in (len + 1)..N : f[i + 1] = 255
              /\ f[N + 2] \in 0..255
              /\ XorClosed(f)

C2_Witness ==
    /\ call.op = "write_memory" /\ call.len = 3
    /\ Len(WriteEvents) = 3 /\ WriteEvents[3].st = "OK"
    /\ WriteEvents[3].b = <<3, 1, 2, 3, 255, 252>>
    /\ Returned /\ res = "OK"

\* C3: in every 2-byte command frame written to the port (negotiated
\* opcodes, GVR and GET during init, the read length len - 1, the legacy
\* mass-erase code 0xFF, the resync frame) the second byte is the first
\* byte XOR 0xFF.
C3_CommandFrame ==
    \A i \in 1..Len(wire) :
       (wire[i].k = "W" /\ wire[i].n = 2)
           => /\ wire[i].b[1] \in 0..255
              /\ wire[i].b[2] = 255 - wire[i].b[1]

C3_Witness ==
    /\ call.op = "read_memory" /\ call.len = 256
    /\ Len(WriteEvents) = 3
    /\ WriteEvents[1].b = <<STM32_CMD_RM, 238>>
    /\ WriteEvents[3].b = <<255, 0>>
    /\ Returned /\ res = "OK"

\* C4: the 5-byte address frame of read, write, go and CRC, and the 5-byte
\* length frame of CRC, hold the 32-bit value in bytes 0..3 most significant
\* byte first, and byte 4 is the XOR of bytes 0..3.
FiveByte(e) == e.k = "W" /\ e.n = 5
C4_AddressFrame ==
    (call.op \in {"read_memory", "write_memory", "go", "crc"})
        => LET f == SelectSeq(wire, FiveByte)
           IN /\ Len(f) <= (IF call.op = "crc" THEN 2 ELSE 1)
              /\ Len(f) >= 1 => Encodes(f[1].b, call.address)
              /\ Len(f) >= 2 => Encodes(f[2].b, call.len)

C4_Witness ==
    /\ call.op = "crc" /\ call.address = 305419896 /\ call.len = 256
    /\ Len(WriteEvents) = 3
    /\ WriteEvents[2].b = <<18, 52, 86, 120, 8>>
    /\ WriteEvents[3].b = <<0, 0, 1, 0, 1>>
    /\ Returned /\ res = "OK"


\* the opcodes the device lists in its GET reply, after length and version
GetOpcodes == {device.get[i] : i \in 3..Len(device.get)}
\* stm32_init is past the parsing of the GET reply and has not failed
GetParsed ==
    /\ call.op = "init"
    /\ \/ res = "stm"
       \/ /\ stack # <<>>
          /\ stack[Len(stack)] \in {"init_get_ack", "init_gid", "init_gid_ack"}
Greatest(S) == CHOOSE x \in S : \A y \in S : y <= x
Stored(field, kind) ==
    LET present == GetOpcodes \cap kind
    IN stm.cmd[field] = IF present = {} THEN 255 ELSE Greatest(present)

CatalogIds == {devices[i].id : i \in 1..Len(devices)} \ {0}
\* C6: stm32_init returns a session only if the GET reply advertised 0x00,
\* 0x01 and 0x02 and the product id of the GID reply is the id of a catalog
\* entry; in a returned session cmd.get, cmd.gvr and cmd.gid differ from 0xFF
\* and dev->id equals pid; in every other case it returns NULL.
C6_SessionOnlyIf ==
    (call.op = "init" /\ Returned)
        => /\ res \in {"stm", "NULL"}
           /\ res = "stm"
                => /\ {0, 1, 2} \subseteq GetOpcodes
                   /\ Len(device.gid) >= 3
                   /\ device.gid[2] * 256 + device.gid[3] \in CatalogIds
                   /\ stm.pid = device.gid[2] * 256 + device.gid[3]
                   /\ stm.cmd.get # 255 /\ stm.cmd.gvr # 255 /\ stm.cmd.gid # 255
                   /\ devices[stm.dev].id = stm.pid
                   /\ heap = "allocated"

C6_Witness ==
    /\ call.op = "init" /\ Returned /\ res = "stm"
    /\ device.gid = <<1, 4, 22>> /\ stm.pid = 1046 /\ stm.dev = 2

\* C7 as stated: on every failure path of stm32_init the session object and
\* its command map are released through stm32_close before NULL is returned:
\* no failed establishment leaves an allocated session behind.
C7_Original ==
    (call.op = "init" /\ Returned /\ res = "NULL") => heap = "freed"

\* the bytes the reads before event i have delivered, in order
RECURSIVE RxBefore(_)
RxBefore(i) ==
    IF i <= 1 THEN <<>>
    ELSE RxBefore(i - 1) \o (IF wire[i - 1].k = "R" THEN wire[i - 1].b ELSE <<>>)
IsPrefix(a, b) == Len(a) <= Len(b) /\ a = SubSeq(b, 1, Len(a))
\* what the device of scenario S1 sends: ACK to 7F; to GVR ACK, 22 00 00,
\* ACK; to GET ACK, 0B, 22 and eleven opcodes, ACK; to GID ACK, 01 04 10, ACK
S1Rx ==
    <<121>> \o <<121, 34, 0, 0, 121>>
    \o <<121, 11, 34, 0, 1, 2, 17, 33, 49, 67, 99, 115, 130, 146, 121>>
    \o <<121, 1, 4, 16, 121>>
S1Tx == << <<127>>, <<1, 254>>, <<0, 255>>, <<2, 253>> >>
\* bytes of S1Rx the device has sent when each frame of S1Tx is due
S1Due == <<0, 1, 6, 21>>
WriteIndex == {i \in 1..Len(wire) : wire[i].k = "W"}
\* the device has answered as in S1 so far, and the port has not failed
AnswersAsS1 ==
    /\ \A i \in 1..Len(wire) : wire[i].st = "OK"
    /\ IsPrefix(RxBefore(Len(wire) + 1), S1Rx)

\* C8: on a BYTE port with GVR_ETX and CMD_INIT, against a device answering
\* as in scenario S1, stm32_init writes exactly 7F, 01 FE, 00 FF, 02 FD in
\* this order, each only after the whole reply to the one before has been
\* read, writes nothing else, and returns a session with bl_version 0x22,
\* pid 0x410, wm 0x31 and er 0x43.
C8_ScenarioS1 ==
    (/\ call.op = "init" /\ call.len = 1
     /\ {"BYTE", "GVR_ETX", "CMD_INIT"} \subseteq port.flags
     /\ AnswersAsS1)
        => /\ Len(WriteEvents) <= 4
           /\ \A k \in 1..Len(WriteEvents) : WriteEvents[k].b = S1Tx[k]
           /\ \A i \in WriteIndex :
                 Len(RxBefore(i)) = S1Due[Cardinality({j \in WriteIndex : j <= i})]
           /\ Returned
                => /\ res = "stm"
                   /\ Len(WriteEvents) = 4
                   /\ RxBefore(Len(wire) + 1) = S1Rx
                   /\ stm.bl_version = 34 /\ stm.pid = 1040
                   /\ stm.cmd.wm = 49 /\ stm.cmd.er = 67

C8_Witness ==
    /\ call.op = "init" /\ call.len = 1
    /\ {"BYTE", "GVR_ETX", "CMD_INIT"} \subseteq port.flags
    /\ AnswersAsS1 /\ Returned /\ res = "stm"
    /\ Len(wire) = 16 /\ stm.pid = 1040 /\ stm.cmd.er = 67

PublicOps ==
    {"read_memory", "write_memory", "erase", "go", "crc",
     "wunprot", "wprot", "runprot", "readprot"}
\* the entry of the command map an operation sends
Kind(op) ==
    IF op = "read_memory" THEN stm.cmd.rm
    ELSE IF op = "write_memory" THEN stm.cmd.wm
    ELSE IF op = "erase" THEN stm.cmd.er
    ELSE IF op = "go" THEN stm.cmd.go
    ELSE IF op = "crc" THEN stm.cmd.crc
    ELSE IF op = "wunprot" THEN stm.cmd.uw
    ELSE IF op = "wprot" THEN stm.cmd.wp
    ELSE IF op = "runprot" THEN stm.cmd.ur
    ELSE stm.cmd.rp
\* the arguments pass the tests an operation makes before it looks at the
\* command map
ArgsPass ==
    IF call.op \in {"read_memory", "write_memory"}
    THEN call.len \in 1..256 /\ (call.op = "write_memory" => call.address % 4 = 0)
    ELSE IF call.op = "erase"
    THEN /\ call.pages # 0
         /\ call.spage <= 65535
         /\ call.pages = 1048576 \/ call.spage + call.pages <= 65535
    ELSE IF call.op = "crc"
    THEN call.address % 4 = 0 /\ call.len % 4 = 0
    ELSE TRUE

\* C9 as stated: every public operation invoked while its command kind is
\* 0xFF in the command map returns STM32_ERR_NO_CMD and writes no byte.
C9_Original ==
    (call.op \in PublicOps /\ Kind(call.op) = 255 /\ Returned)
        => (res = "NO_CMD" /\ WriteEvents = <<>>)

\* C9 amended: every public operation invoked while its command kind is 0xFF
\* writes no byte to the port, and returns STM32_ERR_NO_CMD when its
\* arguments pass the tests that come before the one of the command map
\* (len in 1..256 for read and write, an aligned address for write, aligned
\* address and length for CRC, a non-empty page range within STM32_MAX_PAGES
\* for erase); when they do not, it returns what those tests return.
C9_NoCommand ==
    (call.op \in PublicOps /\ Kind(call.op) = 255)
        => /\ Returned
           /\ wire = <<>>
           /\ ArgsPass => res = "NO_CMD"
           /\ res \in {"NO_CMD", "OK", "UNKNOWN"}

C9_Witness ==
    /\ call.op = "erase" /\ call.pages = 1048576 /\ stm.cmd.er = 255
    /\ Returned /\ res = "NO_CMD" /\ wire = <<>>

\* the first event from i on that is not a BUSY byte read
RECURSIVE AckWaitEnd(_)
AckWaitEnd(i) ==
    IF i <= Len(wire) /\ wire[i] = [k |-> "R", n |-> 1, b |-> <<118>>, st |-> "OK"]
    THEN AckWaitEnd(i + 1)
    ELSE i
\* frame k of a read is the one the call's arguments ask for
ReadFrame(k, f) ==
    IF k = 1 THEN f = <<stm.cmd.rm, 255 - stm.cmd.rm>>
    ELSE IF k = 2 THEN Encodes(f, call.address)
    ELSE f = <<call.len - 1, 256 - call.len>>
\* the events from i on are steps k, k+1, ... of a read, cut at the first
\* step that fails, and res says whether one failed
RECURSIVE ReadSteps(_, _)
ReadSteps(i, k) ==
    IF k = 4
    THEN /\ i = Len(wire)
         /\ wire[i].k = "R" /\ wire[i].n = call.len
         /\ res = IF wire[i].st = "OK" THEN "OK" ELSE "UNKNOWN"
    ELSE /\ i <= Len(wire)
         /\ wire[i].k = "W" /\ ReadFrame(k, wire[i].b)
         /\ IF wire[i].st # "OK" THEN i = Len(wire) /\ res = "UNKNOWN"
            ELSE LET j == AckWaitEnd(i + 1)
                 IN /\ j <= Len(wire)
                    /\ wire[j].k = "R" /\ wire[j].n = 1
                    /\ IF wire[j].st = "OK" /\ wire[j].b = <<121>>
                       THEN ReadSteps(j + 1, k + 1)
                       ELSE j = Len(wire) /\ res = "UNKNOWN"

\* C10: a stm32_read_memory call with 1 <= len <= 256 and a supported read
\* opcode performs, in this order, the framed opcode and an ACK wait, the
\* 5-byte address frame and an ACK wait, the framed len - 1 and an ACK wait,
\* then one read of exactly len bytes; it returns OK only if every step
\* succeeded, and at the first failing step it returns UNKNOWN and performs
\* none of the later steps.
C10_ReadSequence ==
    (/\ call.op = "read_memory" /\ call.len \in 1..256
     /\ stm.cmd.rm # 255 /\ Returned)
        => ReadSteps(1, 1)

C10_Witness ==
    /\ call.op = "read_memory" /\ call.len = 5 /\ call.address = 305419897
    /\ Returned /\ res = "OK"
    /\ Len(wire) = 8 /\ wire[8].n = 5 /\ Len(out) = 5
    /\ \E i \in 1..Len(wire) : wire[i].k = "R" /\ wire[i].b = <<118>>


\* the port has not failed and the device has sent nothing but ACK so far
AllAcked ==
    \A i \in 1..Len(wire) :
       wire[i].st = "OK" /\ (wire[i].k = "R" => wire[i].b = <<121>>)
\* host 31 CE, device 79, host 08 00 00 00 08, device 79, then the data
\* frame with checksum cs, device 79
S2Wire(cs) ==
    << [k |-> "W", n |-> 2, b |-> <<49, 206>>, st |-> "OK"],
       [k |-> "R", n |-> 1, b |-> <<121>>, st |-> "OK"],
       [k |-> "W", n |-> 5, b |-> <<8, 0, 0, 0, 8>>, st |-> "OK"],
       [k |-> "R", n |-> 1, b |-> <<121>>, st |-> "OK"],
       [k |-> "W", n |-> 6, b |-> <<3, 222, 173, 190, 239, cs>>, st |-> "OK"],
       [k |-> "R", n |-> 1, b |-> <<121>>, st |-> "OK"] >>
S2Call ==
    /\ call.op = "write_memory" /\ call.address = 134217728
    /\ call.data = <<222, 173, 190, 239>> /\ stm.cmd.wm = 49

\* C11 as stated: for stm32_write_memory(0x08000000, DE AD BE EF) with
\* write opcode 0x31 and a device that acknowledges every phase, the bytes
\* exchanged are exactly, in order: host 31 CE, device 79, host
\* 08 00 00 00 08, device 79, host 03 DE AD BE EF EC, device 79.
C11_Original ==
    (S2Call /\ AllAcked)
        => /\ IsPrefix(wire, S2Wire(236))
           /\ Returned => wire = S2Wire(236)

\* C11 amended: the same exchange, with the data frame 03 DE AD BE EF 21:
\* its checksum is 03 xor DE xor AD xor BE xor EF = 21; the call returns OK.
C11_ScenarioS2 ==
    (S2Call /\ AllAcked)
        => /\ IsPrefix(wire, S2Wire(33))
           /\ Returned => (wire = S2Wire(33) /\ res = "OK")

C11_Witness ==
    /\ S2Call /\ AllAcked /\ Returned /\ Len(wire) = 6 /\ res = "OK"
    /\ wire[5].b = <<3, 222, 173, 190, 239, 33>>

\* C12 as stated: for stm32_write_memory(0x08000000, 01 02 03) the data
\* frame written after the address ACK is exactly 03 01 02 03 FF FE.
C12_Original ==
    (/\ call.op = "write_memory" /\ call.address = 134217728
     /\ call.data = <<1, 2, 3>> /\ Len(WriteEvents) >= 3)
        => WriteEvents[3].b = <<3, 1, 2, 3, 255, 254>>

\* C12 amended: for stm32_write_memory(0x08000000, 01 02 03) the data frame
\* written after the address ACK is exactly 03 01 02 03 FF FC: length byte
\* N-1 = 3, the three data bytes, one 0xFF pad byte, and the checksum
\* 03 xor 01 xor 02 xor 03 xor FF = FC.
C12_ScenarioS3 ==
    (/\ call.op = "write_memory" /\ call.address = 134217728
     /\ call.data = <<1, 2, 3>> /\ Len(WriteEvents) >= 3)
        => /\ WriteEvents[3].b = <<3, 1, 2, 3, 255, 252>>
           /\ WriteEvents[2].b = <<8, 0, 0, 0, 8>>
           /\ \E i \in 2..Len(wire) :
                 /\ wire[i] = WriteEvents[3]
                 /\ wire[i - 1] = [k |-> "R", n |-> 1, b |-> <<121>>, st |-> "OK"]

C12_Witness ==
    /\ call.op = "write_memory" /\ call.address = 134217728
    /\ call.data = <<1, 2, 3>> /\ Len(WriteEvents) = 3
    /\ stm.cmd.wm = 50 /\ Len(wire) = 6 /\ Returned /\ res = "OK"


\* an erase request, with a supported erase opcode, that passed the tests
\* of its arguments
EraseCall == call.op = "erase" /\ Len(call.args) = 2 /\ stm.cmd.er # 255
NoME == F_NO_ME \in devices[stm.dev].flags
\* in an erase the 2-byte writes are framed commands, the others payloads
IsPayload(e) == e.k = "W" /\ e.n # 2
Payloads == SelectSeq(wire, IsPayload)
IsMassFrame(e) == e.k = "W" /\ e.b \in {<<255, 0>>, <<255, 255, 0>>}
MassFrames == SelectSeq(wire, IsMassFrame)
\* extended page-range frame: count - 1 and each page in two bytes, XOR
IsExtPageFrame(f) ==
    /\ Len(f) >= 5
    /\ Len(f) = 2 * (f[1] * 256 + f[2] + 1) + 3
    /\ XorClosed(f)
ExtPages(f) == [i \in 1..((Len(f) - 3) \div 2) |-> f[2 * i + 1] * 256 + f[2 * i + 2]]
\* legacy page-range frame: count - 1 and each page in one byte, XOR
IsLegacyPageFrame(f) ==
    /\ Len(f) >= 3
    /\ f[1] = (Len(f) - 3) % 256
    /\ XorClosed(f)
LegacyPages(f) == [i \in 1..(Len(f) - 2) |-> f[i + 1]]
\* the pages named by the first k payload frames, in the order sent
RECURSIVE PagesSent(_, _)
PagesSent(k, ext) ==
    IF k = 0 THEN <<>>
    ELSE PagesSent(k - 1, ext) \o
         (IF ext THEN ExtPages(Payloads[k].b) ELSE LegacyPages(Payloads[k].b))
PageRange(s, n) == [i \in 1..n |-> s + i - 1]
FlashPages == flash_addr_to_page_ceil(devices[stm.dev], devices[stm.dev].fl_end)

Carried(pages, ext) == [i \in 1..Len(pages) |-> IF ext THEN pages[i] ELSE pages[i] % 256]

LastEvent == wire[Len(wire)]
IsAck(e) == e.k = "R" /\ e.st = "OK" /\ e.b = <<STM32_ACK>>
\* a mass erase that reaches stm32_mass_erase
MassCall ==
    /\ EraseCall /\ ~NoME
    /\ call.args[2] = STM32_MASS_ERASE /\ call.args[1] <= STM32_MAX_PAGES

\* C14: without F_NO_ME a mass erase writes the framed erase opcode and then,
\* once that is acknowledged, one more frame: the framed byte 0xFF (FF 00)
\* for the legacy opcode 0x43, the three bytes FF FF 00 otherwise; the
\* acknowledgement of that frame is awaited with a timeout of 35 s; nothing
\* else is written (no page-range frame); the call returns OK exactly when
\* that acknowledgement is an ACK.
C14_MassErase ==
    MassCall
        => LET w == WriteEvents
           IN /\ Len(w) <= 2
              /\ Len(w) >= 1 => w[1].b = <<stm.cmd.er, Xor(stm.cmd.er, 255)>>
              /\ Len(w) = 2 =>
                    /\ w[2].b = IF stm.cmd.er = 67 THEN <<255, 0>> ELSE <<255, 255, 0>>
                    /\ \E i \in 2..Len(wire) : wire[i] = w[2] /\ IsAck(wire[i - 1])
                    /\ (stack # <<>> /\ Top = "get_ack") => ack.timeout = 35
              /\ (Returned /\ res = "OK") <=>
                    (Returned /\ Len(w) = 2 /\ w[2].st = "OK" /\ IsAck(LastEvent))

C14_Witness ==
    /\ MassCall /\ stm.cmd.er = 68 /\ Returned /\ res = "OK"
    /\ Len(WriteEvents) = 2 /\ WriteEvents[2].b = <<255, 255, 0>>
    /\ \E i \in 1..Len(wire) : wire[i].k = "R" /\ wire[i].st = "TIMEDOUT"
    /\ IsAck(LastEvent)


\* a page-range request that passed the tests of its arguments
RangeCall ==
    /\ EraseCall
    /\ call.args[2] # STM32_MASS_ERASE /\ call.args[2] >= 1
    /\ call.args[1] + call.args[2] <= STM32_MAX_PAGES
Batches(P) == (P + 511) \div 512
PageFrame(f, ext) == IF ext THEN IsExtPageFrame(f) ELSE IsLegacyPageFrame(f)
PagesOf(f, ext) == IF ext THEN ExtPages(f) ELSE LegacyPages(f)

\* C15: a page-range request of P pages from page s (P >= 1,
\* s + P <= STM32_MAX_PAGES) issues ceil(P/512) erase commands, each for at
\* most 512 pages, naming in ascending contiguous order exactly the pages
\* s .. s+P-1, none twice; it stops at the first command that fails and
\* returns its error, UNKNOWN.
C15_Original ==
    RangeCall
        => LET ext == stm.cmd.er # 67
               s == call.args[1]
               P == call.args[2]
           IN /\ Len(Payloads) <= Batches(P)
              /\ \A k \in 1..Len(Payloads) :
                    /\ PageFrame(Payloads[k].b, ext)
                    /\ Len(PagesOf(Payloads[k].b, ext)) <= 512
              /\ IsPrefix(PagesSent(Len(Payloads), ext), PageRange(s, P))
              /\ (Returned /\ res = "OK")
                    => /\ Len(Payloads) = Batches(P)
                       /\ PagesSent(Len(Payloads), ext) = PageRange(s, P)
              /\ Returned => res \in {"OK", "UNKNOWN"}


\* frame k of a CRC request is the one the call's arguments ask for
CrcFrame(k, f) ==
    IF k = 1 THEN f = <<stm.cmd.crc, 255 - stm.cmd.crc>>
    ELSE IF k = 2 THEN Encodes(f, call.address)
    ELSE Encodes(f, call.len)
BigEndian(r) == ((r[1] * 256 + r[2]) * 256 + r[3]) * 256 + r[4]
\* the call failed at the last event and wrote nothing to *crc
CrcFailedAt(i) == i = Len(wire) /\ res = "UNKNOWN" /\ out = <<>>
\* the events from i on are steps k, k+1, ... of a CRC request: three frames
\* each with its acknowledgement, a second acknowledgement after the third,
\* the read of 5 bytes; cut at the first step that fails
RECURSIVE CrcSteps(_, _)
CrcSteps(i, k) ==
    IF k = 5
    THEN /\ i = Len(wire)
         /\ wire[i].k = "R" /\ wire[i].n = 5
         /\ IF wire[i].st = "OK" /\ wire[i].b[5] = XorRange(wire[i].b, 1, 4)
            THEN res = "OK" /\ out = <<BigEndian(wire[i].b)>>
            ELSE res = "UNKNOWN" /\ out = <<>>
    ELSE /\ i <= Len(wire)
         /\ k <= 3 => (wire[i].k = "W" /\ CrcFrame(k, wire[i].b))
         /\ IF k <= 3 /\ wire[i].st # "OK" THEN CrcFailedAt(i)
            ELSE LET j == AckWaitEnd(IF k <= 3 THEN i + 1 ELSE i)
                 IN /\ j <= Len(wire)
                    /\ wire[j].k = "R" /\ wire[j].n = 1
                    /\ IF IsAck(wire[j]) THEN CrcSteps(j + 1, k + 1)
                       ELSE CrcFailedAt(j)

\* C16: stm32_crc_memory with address and length multiples of 4 and a
\* supported CRC opcode performs in order: framed opcode then ACK, address
\* frame then ACK, length frame then ACK, a second acknowledgement wait, a
\* read of 5 bytes; it returns OK, with the big-endian value of bytes 0..3
\* in *crc, exactly when every step succeeds and byte 4 is the XOR of bytes
\* 0..3; otherwise it returns UNKNOWN at the first failing step and *crc is
\* not written.
C16_CrcSequence ==
    (/\ call.op = "crc" /\ call.address % 4 = 0 /\ call.len % 4 = 0
     /\ stm.cmd.crc # 255 /\ Returned)
        => CrcSteps(1, 1)

C16_Witness ==
    /\ call.op = "crc" /\ call.address = 305419896 /\ call.len = 256
    /\ Returned /\ res = "OK" /\ out = <<305419896>>
    /\ Len(wire) = 9
    /\ IsAck(wire[7]) /\ IsAck(wire[8])
    /\ wire[9] = [k |-> "R", n |-> 5, b |-> <<18, 52, 86, 120, 8>>, st |-> "OK"]


\* ---- CRC-32/MPEG-2, bit by bit: the register is a polynomial of degree
\* below 32 over GF(2), kept as the set of the exponents of its terms; the
\* generator is x^32 + x^26 + x^23 + x^22 + x^16 + x^12 + x^11 + x^10 + x^8 +
\* x^7 + x^5 + x^4 + x^2 + x + 1 (0x04C11DB7); a message bit enters at the
\* top, most significant bit of a byte first; the register starts at all
\* ones and is not inverted at the end
PolyTerms == {26, 23, 22, 16, 12, 11, 10, 8, 7, 5, 4, 2, 1, 0}
RegStep(reg, bit) ==
    LET sh == {k + 1 : k \in {j \in reg : j < 31}}
    IN IF (31 \in reg) # (bit = 1)
       THEN {k \in 0..31 : (k \in sh) # (k \in PolyTerms)}
       ELSE sh
BitOf(byte, k) == (byte \div (2 ^ k)) % 2
\* the bits hi down to lo of a byte enter, folded by halves
RECURSIVE RegByte(_, _, _, _)
RegByte(reg, byte, hi, lo) ==
    IF hi = lo THEN RegStep(reg, BitOf(byte, hi))
    ELSE LET mid == (hi + lo + 1) \div 2
             h == RegByte(reg, byte, hi, mid)
         IN IF h = h THEN RegByte(h, byte, mid - 1, lo) ELSE h
\* the bytes lo..hi of a message enter, folded by halves
RECURSIVE Mpeg2(_, _, _, _)
Mpeg2(reg, msg, lo, hi) ==
    IF lo > hi THEN reg
    ELSE IF lo = hi THEN RegByte(reg, msg[lo], 7, 0)
    ELSE LET mid == (lo + hi) \div 2
             h == Mpeg2(reg, msg, lo, mid)
         IN IF h = h THEN Mpeg2(h, msg, mid + 1, hi) ELSE h
\* the message a buffer stands for when read as little-endian 32-bit words:
\* of every word the most significant byte first, i.e. the 4 bytes reversed
AsWords(b) == [i \in 1..Len(b) |-> b[4 * ((i - 1) \div 4) + 4 - ((i - 1) % 4)]]
\* the terms of a uint32_t kept as 4 bytes, most significant first
Terms(w) == {k \in 0..31 : BitOf(w[4 - (k \div 8)], k % 8) = 1}

\* C17: stm32_sw_crc(0xFFFFFFFF, buf, len) with len a multiple of 4 is the
\* CRC-32/MPEG-2 (polynomial 0x04C11DB7, most significant bit first, no
\* reflection, no final XOR) of the buffer read as little-endian 32-bit
\* words; for the buffer 00 00 00 00 it is 0xC704DD7B.
C17_SwCrc ==
    (call.op = "sw_crc" /\ call.len % 4 = 0)
        => /\ Terms(out[1]) = Mpeg2(0..31, AsWords(call.data), 1, call.len)
           /\ call.data = <<0, 0, 0, 0>> => out[1] = <<199, 4, 221, 123>>

C17_Witness ==
    /\ call.op = "sw_crc" /\ call.data = <<0, 0, 0, 0>>
    /\ out = << <<199, 4, 221, 123>> >>


\* a CRC request on a session without the CRC opcode, with aligned arguments
SoftCrcCall ==
    /\ call.op = "crc_wrapper" /\ Len(call.args) = 2
    /\ call.args[1] % 4 = 0 /\ call.args[2] % 4 = 0
    /\ stm.cmd.crc = 255
IsData(e) == e.k = "R" /\ e.n > 1
\* the reads of chunks and the address frames written so far, in order
DataReads == SelectSeq(wire, IsData)
AddrWrites == SelectSeq(wire, FiveByte)
\* the bytes of the reads lo..hi of d, one after the other
RECURSIVE Cat(_, _, _)
Cat(d, lo, hi) ==
    IF lo > hi THEN <<>>
    ELSE IF lo = hi THEN d[lo].b
    ELSE LET mid == (lo + hi) \div 2
         IN Cat(d, lo, mid) \o Cat(d, mid + 1, hi)
\* an event that makes the read of a chunk fail
Fails(e) == e.st # "OK" \/ (e.k = "R" /\ e.n = 1 /\ e.b \notin {<<121>>, <<118>>})

\* C18: without the CRC opcode, stm32_crc_wrapper with address and length
\* multiples of 4 reads [address, address + length) in consecutive ascending
\* chunks of at most 256 bytes, each a multiple of 4; on success *crc is
\* stm32_sw_crc applied once, from 0xFFFFFFFF, to the chunks one after the
\* other; if the read of a chunk fails it returns UNKNOWN and *crc is not
\* written.
C18_SoftCrc ==
    SoftCrcCall
        => LET a == call.args[1]
               n == call.args[2]
               d == DataReads
           IN /\ \A k \in 1..Len(AddrWrites) :
                    Encodes(AddrWrites[k].b, a + 256 * (k - 1))
              /\ \A k \in 1..Len(d) :
                    /\ d[k].n = Min(256, n - 256 * (k - 1))
                    /\ d[k].n % 4 = 0
                    /\ k < Len(d) => d[k].st = "OK"
              /\ Len(d) <= Len(AddrWrites) /\ Len(AddrWrites) <= Len(d) + 1
              /\ (Returned /\ res = "OK")
                    => /\ Len(d) = (n + 255) \div 256
                       /\ \A i \in 1..Len(wire) : ~Fails(wire[i])
                       /\ out = <<stm32_sw_crc(CRC_INIT_VALUE, Cat(d, 1, Len(d)))>>
              /\ (Returned /\ res # "OK") => (res = "UNKNOWN" /\ out = <<>>)
              /\ (Returned /\ \E i \in 1..Len(wire) : Fails(wire[i])) => res = "UNKNOWN"

C18_Witness ==
    /\ SoftCrcCall /\ call.args = <<305419896, 516>>
    /\ Returned /\ res = "OK"
    /\ Len(DataReads) = 3 /\ DataReads[3].n = 4
    /\ AddrWrites[3].b = <<18, 52, 88, 120, 6>>
    /\ Len(out) = 1 /\ Len(out[1]) = 4


ProtOps == {"wprot", "wunprot", "readprot", "runprot"}
ProtOpcode ==
    IF call.op = "wprot" THEN stm.cmd.wp
    ELSE IF call.op = "wunprot" THEN stm.cmd.uw
    ELSE IF call.op = "readprot" THEN stm.cmd.rp
    ELSE stm.cmd.ur
\* a protection operation whose opcode the bootloader supports
ProtCall == call.op \in ProtOps /\ ProtOpcode # 255
\* seconds: 35 for read-unprotect, 1 for the other three
ProtSecs == IF call.op = "runprot" THEN 35 ELSE 1
Acks == SelectSeq(wire, IsAck)
IsNack(e) == e.k = "R" /\ e.st = "OK" /\ e.b = <<STM32_NACK>>

\* C19 as stated: each protection operation sends its opcode frame and
\* awaits the acknowledgement of that frame with the timeout of the
\* operation (35 s for read-unprotect, 1 s for the others); it returns OK
\* exactly when that acknowledgement is an ACK.
C19_Original ==
    ProtCall
        => /\ Len(WriteEvents) <= 1
           /\ Len(WriteEvents) = 1 => WriteEvents[1].b = <<ProtOpcode, 255 - ProtOpcode>>
           /\ (stack # <<>> /\ Top = "get_ack") => ack.timeout = ProtSecs
           /\ Returned =>
                 (res = "OK" <=>
                     LET j == AckWaitEnd(2)
                     IN Len(wire) >= 2 /\ j <= Len(wire) /\ IsAck(wire[j]))

\* C19 amended: each protection operation writes its opcode frame and nothing
\* else, awaits the acknowledgement of that frame without a timeout, and
\* then awaits a second acknowledgement with the timeout of the operation
\* (35 s for read-unprotect, 1 s for the others); it returns OK exactly when
\* both acknowledgements are ACK, and UNKNOWN otherwise, as when either is a
\* NACK.
C19_Protect ==
    ProtCall
        => /\ Len(WriteEvents) <= 1
           /\ Len(WriteEvents) = 1 => WriteEvents[1].b = <<ProtOpcode, 255 - ProtOpcode>>
           /\ stack = <<"get_ack", "send_command", "prot_sent">>
                 => (ack.timeout = 0 /\ Len(Acks) = 0)
           /\ stack = <<"get_ack", "prot_done">>
                 => (ack.timeout = ProtSecs /\ Len(Acks) = 1)
           /\ Returned =>
                 /\ res \in {"OK", "UNKNOWN"}
                 /\ res = "OK" <=> (Len(Acks) = 2 /\ IsAck(LastEvent))
                 /\ (\E i \in 1..Len(wire) : IsNack(wire[i])) => res = "UNKNOWN"

C19_Witness ==
    /\ ProtCall /\ call.op = "runprot" /\ Returned /\ res = "OK"
    /\ Len(Acks) = 2
    /\ \E i \in 1..Len(wire) : wire[i].st = "TIMEDOUT"


\* ---------------------------------------------------------------- C20
\* C20: once a read-protect, read-unprotect or write-unprotect action of
\* stm32main has succeeded, reset_flag is 0 from the close sequence on and
\* init_bl_exit, the one caller of the reset stubs, is never called, with -R
\* on the command line too
C20_NoReset ==
    (main.action \in AutoReset /\ main.s_err = "OK")
        => /\ main.pc \in {"close", "call", "reset", "done"}
           /\ main.reset_flag = 0
           /\ main.bl_exit = 0

\* -R given, the protect action done with success, stm32main at its return
C20_Witness ==
    /\ main.pc = "done"
    /\ main.action \in AutoReset
    /\ main.argv.R = 1
    /\ main.s_err = "OK"
    /\ main.ret = 0


\* ---------------------------------------------------------------- C21
\* the Go command is on its way: stm32_go is the call in progress
GoRuns == call.op = "go" /\ main.pc = "call"

\* C21: stm32main calls stm32_go at close only with a session, with -g given
\* and with ret = 0, and from the moment stm32_go has returned OK nothing
\* more is written or read on the port and init_bl_exit is not called, with -R
\* given too
C21_GoLast ==
    [][ /\ (GoRuns' /\ ~GoRuns) =>
              (heap = "allocated" /\ main.argv.g # <<>> /\ main.ret = 0)
        /\ (\E i \in 1..Len(wire') : wire'[i].k = "W" /\ wire'[i].b[1] = STM32_CMD_GO)
              => main'.argv.g # <<>>
        /\ main.go = "OK" => (wire' = wire /\ main'.bl_exit = 0)
        /\ main'.go = "OK" => main'.reset_flag = 0 ]_vars

\* -R and -g given, stm32_go returned OK, stm32main at its return
C21_Witness ==
    /\ main.pc = "done"
    /\ main.argv.R = 1
    /\ main.go = "OK"
    /\ main.bl_exit = 0


\* ---------------------------------------------------------------- C22
FlashCall == call.op = "flash"
FlashDev == call.args[1]

\* C22: for an address inside the flash, the floor page starts at or below
\* the address, the next page starts above it, and the floor page of the
\* start of that page is the page itself
C22_PageWalk ==
    (FlashCall /\ is_addr_in_flash(FlashDev, call.address))
        => /\ out[3] <= call.address
           /\ call.address < out[4]
           /\ flash_addr_to_page_floor(FlashDev, out[3]) = out[1]

\* an address in the second page of a table of two different sizes, the last
\* page of the flash cut short
C22_Witness ==
    /\ FlashCall /\ is_addr_in_flash(FlashDev, call.address)
    /\ Len(FlashDev.fl_ps) = 3 /\ FlashDev.fl_ps[1] # FlashDev.fl_ps[2]
    /\ out[1] = 1
    /\ out[3] < call.address
    /\ out[4] > FlashDev.fl_end

\* ---------------------------------------------------------------- C23
OutsideFlash == FlashCall /\ ~is_addr_in_flash(FlashDev, call.address)

\* C23 as stated: outside the flash both helpers return 0
C23_Original == OutsideFlash => (out[1] = 0 /\ out[2] = 0)

\* C23: outside the flash the floor helper returns 0; the ceil helper
\* returns 0 below fl_start and above fl_end, and at fl_end itself it returns
\* the number of pages of the flash, the first page that starts at or
\* beyond fl_end
C23_OutsideFlash ==
    OutsideFlash =>
        /\ out[1] = 0
        /\ call.address # FlashDev.fl_end => out[2] = 0
        /\ call.address = FlashDev.fl_end =>
              /\ out[2] > 0
              /\ flash_page_to_addr(FlashDev, out[2]) >= FlashDev.fl_end
              /\ flash_page_to_addr(FlashDev, out[2] - 1) < FlashDev.fl_end

\* the helpers asked about fl_end: the ceil page is not 0
C23_Witness ==
    /\ OutsideFlash
    /\ call.address = FlashDev.fl_end
    /\ out[1] = 0
    /\ out[2] > 1


\* ---------------------------------------------------------------- C24
\* C24 as stated: whatever the device answers, an acknowledgement wait or a
\* resync that has begun returns in the end
C24_Original == (stack # <<>>) ~> (stack = <<>>)

\* the last transfer read the byte BUSY
BusyRead ==
    /\ wire # <<>>
    /\ wire[1].k = "R" /\ wire[1].st = "OK" /\ wire[1].b = <<STM32_BUSY>>

\* what does hold: a resync returns, and an acknowledgement wait that has
\* not returned reads one more BUSY byte
C24_UnlessBusy ==
    /\ (Top \in {"resync", "resync_read"}) ~> (stack = <<>>)
    /\ (Top = "get_ack") ~> (stack = <<>> \/ (BusyRead /\ Top = "get_ack"))
    /\ []<>(stack = <<>> \/ BusyRead)


\* ---------------------------------------------------------------- C25
\* the last port->write so far
LastWrite == CHOOSE i \in 1..Len(wire) : IsWrite(wire[i]) /\ \A j \in (i+1)..Len(wire) : IsRead(wire[j])
\* a read that makes the acknowledgement wait read again
IsRetry(e) == IsRead(e) /\ e.n = 1 /\ (e.st = "TIMEDOUT" \/ (e.st = "OK" /\ e.b = <<STM32_BUSY>>))

\* stm32_send_command_timeout returns OK in this step
CommandOk == Top = "send_command" /\ Top' # "send_command" /\ rv' = "OK"

\* C25: when stm32_send_command returns OK, the transfers since its write are
\* that write, of the opcode and its complement, and after it 1-byte reads
\* only: reads that timed out or brought BUSY, then one read of the byte ACK,
\* which is the last transfer; so the ACK byte was read after the frame was
\* written and is the only one read for it
C25_OneAck ==
    [][ CommandOk =>
          /\ \E i \in 1..Len(wire) : IsWrite(wire[i])
          /\ LET w == LastWrite
             IN /\ wire[w].n = 2 /\ wire[w].st = "OK"
                /\ wire[w].b[2] = 255 - wire[w].b[1]
                /\ w < Len(wire)
                /\ IsAck(wire[Len(wire)])
                /\ \A j \in (w + 1)..(Len(wire) - 1) : IsRetry(wire[j])
                /\ Cardinality({j \in (w + 1)..Len(wire) : IsAck(wire[j])}) = 1
          /\ wire' = wire ]_vars

\* a command acknowledged after a BUSY byte, about to return OK, with an
\* ACK of an earlier frame in the log
C25_Witness ==
    /\ Top = "send_command" /\ rv = "OK"
    /\ Len(wire) >= 5
    /\ IsAck(wire[Len(wire)])
    /\ wire[Len(wire) - 1].b = <<STM32_BUSY>>
    /\ IsWrite(wire[Len(wire) - 2])
    /\ IsAck(wire[Len(wire) - 3])


\* ---------------------------------------------------------------- C26
ResyncPair == <<STM32_CMD_ERR, Xor(STM32_CMD_ERR, 255)>>
IsPair(e) == IsWrite(e) /\ e.b = ResyncPair
InResync == Top \in {"resync", "resync_read"}
AfterResync == Top \in {"gl_rs1", "gl_rs2"}
\* a command frame that was written before
ReSent(w, j) ==
    /\ IsWrite(w[j]) /\ w[j].n = 2 /\ ~IsPair(w[j])
    /\ \E i \in 1..(j - 1) : IsWrite(w[i]) /\ w[i].b = w[j].b

C26_WitnessTimeout ==
    /\ call.op = "init" /\ "BYTE" \notin port.flags
    /\ \E i \in 1..Len(wire) : IsPair(wire[i])
    /\ ~(\E i \in 1..Len(wire) : IsNack(wire[i]))
    /\ Returned


\* ---------------------------------------------------------------- C27
\* a call of serial_read for a reply of 1 byte or more, on an open port
SerialCall == call.op = "serial_read" /\ call.args[1] = "open" /\ call.len > 0
\* bytes that reach the host before the deadline
RECURSIVE InTime(_)
InTime(b) ==
    IF b = <<>> THEN 0
    ELSE (IF b[1].t < SerialReadMs THEN b[1].k ELSE 0) + InTime(Tail(b))
AllInTime == InTime(call.args[2]) >= call.len

\* C27 as stated: serial_read returns OK when all n bytes arrive before the
\* 2000 ms are over, in whatever bursts, and TIMEDOUT only when they do not
C27_Original ==
    SerialCall => /\ AllInTime => out[1] = "OK"
                  /\ out[1] = "TIMEDOUT" => ~AllInTime

\* what does hold: OK exactly when the first burst comes before the
\* deadline with all n bytes; any other reply in time ends the read at its
\* first burst with TIMEDOUT
C27_FirstBurst ==
    SerialCall =>
        LET b == call.args[2]
            whole == b # <<>> /\ b[1].t < SerialReadMs /\ b[1].k >= call.len
        IN /\ out[1] = "OK" <=> whole
           /\ out[1] \in {"OK", "TIMEDOUT"}
           /\ (b # <<>> /\ b[1].t < SerialReadMs) => out[3] = b[1].t

\* all bytes in time, in two bursts: TIMEDOUT long before the deadline
C27_SplitReply ==
    /\ SerialCall /\ AllInTime
    /\ Len(call.args[2]) = 2
    /\ out[1] = "TIMEDOUT"
    /\ out[3] < SerialReadMs

\* ---------------------------------------------------------------- C28
\* writes of the chunk at addr so far
ChunkWrites(a) == Cardinality({i \in DOMAIN main.w.log : main.w.log[i][1] = a})

\* the comparison finds the chunk read back different from the chunk written
Mismatch == main.pc = "compare" /\ main.w.buffer # main.w.compare

\* C28: with -v a chunk that was written is read back whole before anything
\* else is done with it; a chunk that differs is written again at the same
\* address with the same data and failed goes up by one while failed < retry,
\* and with failed = retry the action ends with a verify error and ret = 1;
\* a chunk that verifies sets failed to 0; addr moves, by len, only when the
\* chunk has verified; no chunk is written again more than retry times
C28_VerifyLoop ==
    [][ /\ (Top = "main_written" /\ rv = "OK" /\ main.w.verify = 1)
            => /\ call'.op = "read_memory"
               /\ call'.address = main.w.addr
               /\ main'.w.addr = main.w.addr
        /\ (main.pc = "compare")
            => /\ Len(main.w.compare) = main.w.len
               /\ main.w.verify = 1
        /\ (Mismatch /\ main.w.failed < main.w.retry)
            => /\ call'.op = "write_memory"
               /\ call'.address = main.w.addr
               /\ call'.data = main.w.buffer
               /\ main'.w.failed = main.w.failed + 1
               /\ main'.w.addr = main.w.addr
        /\ (Mismatch /\ main.w.failed >= main.w.retry)
            => /\ main'.pc = "close"
               /\ main'.s_err = "verify"
               /\ main'.ret = 1
               /\ main'.w.log = main.w.log
        /\ (main.pc = "compare" /\ ~Mismatch)
            => /\ main'.w.failed = 0
               /\ main'.w.addr = main.w.addr + main.w.len
        /\ (main.w.verify = 1 /\ main.pc # "action" /\ main'.w.addr # main.w.addr)
            => main.pc = "compare" /\ ~Mismatch
        /\ ChunkWrites(main.w.addr)' <= main.w.retry + 1
        /\ main'.w.failed <= main.w.retry
      ]_vars

\* the first chunk differed retry times and then verified, and the second
\* chunk is being written
C28_Witness ==
    /\ main.w.verify = 1 /\ main.w.retry = MaxRetry
    /\ main.w.addr = devices[stm.dev].fl_start + main.w.len
    /\ ChunkWrites(devices[stm.dev].fl_start) = MaxRetry + 1
    /\ ChunkWrites(main.w.addr) = 1
    /\ main.w.failed = 0

\* a chunk differed retry + 1 times: stm32main has returned 1 after the
\* verify error
C28_WitnessFail ==
    /\ main.pc = "done" /\ main.s_err = "verify" /\ main.ret = 1
    /\ main.w.retry = DefaultRetry
    /\ ChunkWrites(main.w.addr) = DefaultRetry + 1

\* ---------------------------------------------------------------- C29
\* the transfer done in this step
Done == wire'[Len(wire')]

\* C29: a read of the acknowledgement wait that delivers BUSY is followed by
\* another read of the same wait, and a read that delivers any other byte
\* ends the wait: with OK exactly for 0x79, with NACK exactly for 0x1F, with
\* Unknown for every other value
C29_AckBytes ==
    [][ (Top = "get_ack" /\ Done.st = "OK")
          => /\ Done.k = "R" /\ Done.n = 1
             /\ IF Done.b[1] = STM32_BUSY
                THEN stack' = stack /\ ack' = ack /\ rv' = rv
                ELSE /\ stack' = Rest
                     /\ rv' \in {"OK", "NACK", "UNKNOWN"}
                     /\ rv' = "OK" <=> Done.b[1] = STM32_ACK
                     /\ rv' = "NACK" <=> Done.b[1] = STM32_NACK
      ]_vars

\* a wait has read BUSY and then ACK and has returned OK
C29_Witness ==
    /\ Len(wire) >= 2
    /\ wire[Len(wire) - 1] = REvent(1, <<STM32_BUSY>>, "OK")
    /\ wire[Len(wire)] = REvent(1, <<STM32_ACK>>, "OK")
    /\ Top = "send_command" /\ rv = "OK"

\* a wait has read BUSY and then a byte that is none of the three and has
\* returned Unknown
C29_WitnessOther ==
    /\ Len(wire) >= 2
    /\ wire[Len(wire) - 1] = REvent(1, <<STM32_BUSY>>, "OK")
    /\ wire[Len(wire)] = REvent(1, <<0>>, "OK")
    /\ Top # "get_ack" /\ rv = "UNKNOWN"

\* ---------------------------------------------------------------- C30
\* a read of the wait is done in this step
AckRead == Top = "get_ack" /\ off' # off

\* C30: a read of the wait that fails is followed by another read of the same
\* wait only if it timed out, the caller's timeout is not 0, the port has
\* PORT_RETRY and the clock read after it is before t0 + timeout; every
\* other failed read ends the wait with Unknown
C30_TimeoutRetry ==
    [][ (AckRead /\ Done.st # "OK")
          => IF /\ Done.st = "TIMEDOUT"
                /\ ack.timeout # 0
                /\ "RETRY" \in port.flags
                /\ now' < ack.t0 + ack.timeout
             THEN stack' = stack /\ ack' = ack /\ rv' = rv
             ELSE stack' = Rest /\ rv' = "UNKNOWN"
      ]_vars

\* a read timed out before the deadline and the wait goes on
C30_Witness ==
    /\ Top = "get_ack"
    /\ wire = <<REvent(1, <<>>, "TIMEDOUT")>>
    /\ ack.timeout # 0 /\ now < ack.t0 + ack.timeout

\* a read timed out on a port with PORT_RETRY when the clock had passed the
\* longest deadline, and the wait has ended with Unknown
C30_WitnessDeadline ==
    /\ stack = <<>> /\ rv = "UNKNOWN"
    /\ wire = <<REvent(1, <<>>, "TIMEDOUT")>>
    /\ "RETRY" \in port.flags
    /\ now > STM32_MASSERASE_TIMEOUT

\* ---------------------------------------------------------------- C31
\* stm32_init was called with the init sequence due
SeqDue == call.op = "init" /\ "CMD_INIT" \in port.flags /\ call.len # 0

InitByte(st) == WEvent(<<STM32_CMD_INIT>>, st)
GvrFrame(e) == e.k = "W" /\ e.b = <<STM32_CMD_GVR, Xor(STM32_CMD_GVR, 255)>>

\* the first 0x7F was written and answered with ACK or NACK
FirstTaken ==
    /\ Len(wire) >= 2
    /\ wire[1] = InitByte("OK")
    /\ wire[2] \in {REvent(1, <<STM32_ACK>>, "OK"), REvent(1, <<STM32_NACK>>, "OK")}

\* the read after the first 0x7F timed out, and the second 0x7F was written
\* and answered with NACK
SecondTaken ==
    /\ Len(wire) >= 4
    /\ wire[1] = InitByte("OK")
    /\ wire[2] = REvent(1, <<>>, "TIMEDOUT")
    /\ wire[3] = InitByte("OK")
    /\ wire[4] = REvent(1, <<STM32_NACK>>, "OK")

\* C31: with CMD_INIT and init requested the first transfer is the write of
\* one byte 0x7F; a second 0x7F is written exactly after a timed-out read of
\* the reply to the first; the GVR frame is written only after the first
\* 0x7F was answered with ACK or NACK, or the second with NACK, and then it
\* is the next write; after every other outcome stm32_init returns NULL with
\* nothing more on the wire. Without CMD_INIT or with init = 0 no 0x7F is
\* written and the first transfer is the write of 01 FE.
C31_InitSeq ==
    call.op = "init" /\ wire # <<>> =>
      IF SeqDue
      THEN /\ wire[1].k = "W" /\ wire[1].b = <<STM32_CMD_INIT>>
           /\ \A i \in 2..Len(wire) :
                 (wire[i].k = "W" /\ wire[i].b = <<STM32_CMD_INIT>>)
                    => i = 3 /\ wire[1].st = "OK" /\ wire[2].st = "TIMEDOUT"
           /\ Len(wire) >= 3 /\ wire[2].st = "TIMEDOUT" => wire[3].b = <<STM32_CMD_INIT>>
           /\ \A i \in 1..Len(wire) :
                 GvrFrame(wire[i]) => \/ FirstTaken /\ i = 3
                                      \/ SecondTaken /\ i = 5
           /\ (FirstTaken /\ Len(wire) >= 3) => GvrFrame(wire[3])
           /\ (SecondTaken /\ Len(wire) >= 5) => GvrFrame(wire[5])
           /\ (stack = <<>> /\ ~FirstTaken /\ ~SecondTaken)
                 => res = "NULL" /\ Len(wire) <= 4
      ELSE /\ GvrFrame(wire[1])
           /\ \A i \in 1..Len(wire) : wire[i].b # <<STM32_CMD_INIT>>

\* the first 0x7F met a timeout, the second a NACK, and GVR was sent
C31_Witness ==
    SeqDue /\ SecondTaken /\ Len(wire) >= 5 /\ GvrFrame(wire[5])

\* the second 0x7F was answered with ACK and stm32_init has returned NULL
C31_WitnessAbort ==
    /\ SeqDue /\ Len(wire) = 4 /\ wire[3] = InitByte("OK")
    /\ wire[4] = REvent(1, <<STM32_ACK>>, "OK")
    /\ stack = <<>> /\ res = "NULL"

\* init = 0 on a port with CMD_INIT: the session starts with 01 FE
C31_WitnessNoInit ==
    /\ call.op = "init" /\ call.len = 0 /\ "CMD_INIT" \in port.flags
    /\ Len(wire) >= 1 /\ GvrFrame(wire[1])

\* ---------------------------------------------------------------- C32
\* the frames of the command of stm32_guess_len_cmd written so far
GlFrames ==
    {i \in DOMAIN wire : wire[i] = WEvent(<<gl.cmd, Xor(gl.cmd, 255)>>, "OK")}
Lowest(S) == CHOOSE x \in S : \A y \in S : x <= y
Highest(S) == CHOOSE x \in S : \A y \in S : x >= y
\* the first read of stm32_guess_len_cmd on a frame port: the first read of
\* two bytes or more after the first frame
GlFirstRead ==
    wire[Lowest({i \in DOMAIN wire : i > Lowest(GlFrames) /\ wire[i].k = "R" /\ wire[i].n >= 2})]
\* reads of one byte that follow the ACK of a frame sent again
GlDiscover ==
    {i \in DOMAIN wire :
        /\ i > Lowest(GlFrames \ {Lowest(GlFrames)})
        /\ wire[i].k = "R" /\ wire[i].n = 1 /\ wire[i].st = "OK"
        /\ wire[i - 1] = REvent(1, <<STM32_ACK>>, "OK")}
\* a resync that returned OK ends just before transfer i
ResyncBefore(i) ==
    /\ i > 2
    /\ wire[i - 1] = REvent(1, <<STM32_NACK>>, "OK")
    /\ wire[i - 2] = WEvent(<<STM32_CMD_ERR, Xor(STM32_CMD_ERR, 255)>>, "OK")
\* on a frame port the command was sent for the final read
GlFinal == "BYTE" \notin port.flags /\ Top = "gl_sent3" /\ rv = "OK"

\* C32 as stated: before the final read the command was sent three times,
\* with a read of one byte between the second and the third
C32_Original ==
    GlFinal => /\ Cardinality(GlFrames) = 3
               /\ \E i \in GlDiscover : i < Highest(GlFrames)

\* C32: before the final read the command was sent again after a resync that
\* returned OK. When the first read failed the command was sent three times:
\* resync, the command, a read of one byte, resync, the command. When the
\* first read delivered a leading byte other than the guess it was sent
\* twice: one resync, the command, and no read of one byte. The final read
\* asks for the leading byte found, plus 2.
C32_WrongGuess ==
    [][ GlFinal =>
          /\ ResyncBefore(Highest(GlFrames))
          /\ IF GlFirstRead.st # "OK"
             THEN /\ Cardinality(GlFrames) = 3
                  /\ LET s2 == Lowest(GlFrames \ {Lowest(GlFrames)})
                     IN /\ ResyncBefore(s2)
                        /\ Cardinality(GlDiscover) = 1
                        /\ \A d \in GlDiscover :
                              /\ s2 < d /\ d < Highest(GlFrames)
                              /\ Done.n = wire[d].b[1] + 2
             ELSE /\ GlFirstRead.b[1] # GlFirstRead.n - 2
                  /\ Cardinality(GlFrames) = 2
                  /\ GlDiscover = {}
                  /\ Done.n = GlFirstRead.b[1] + 2
          /\ Done.k = "R"
      ]_vars

\* the first read failed and the command was sent for the third time
C32_Witness ==
    GlFinal /\ GlFirstRead.st # "OK" /\ Cardinality(GlFrames) = 3

\* the first read delivered another leading byte and the command was sent
\* for the second time
C32_WitnessMismatch ==
    GlFinal /\ GlFirstRead.st = "OK" /\ Cardinality(GlFrames) = 2

\* ---------------------------------------------------------------- C33
\* the payload of stm32_pages_erase is on the wire and its ACK is awaited:
\* call.len pages from call.spage
PagesWritten == call.op = "erase" /\ stack = <<"get_ack", "pe_done">>
BatchPayload == wire[LastWrite].b
AllButLast(w) == SubSeq(w, 1, Len(w) - 1)

\* C33 as stated: the legacy payload is P-1, the pages s .. s+P-1 in
\* ascending order and the XOR of these bytes; the extended payload is P-1
\* and each page as two bytes, most significant first, and the XOR
C33_Original ==
    PagesWritten =>
      LET w == BatchPayload
          s == call.spage
          P == call.len
      IN /\ w[Len(w)] = XorSeq(AllButLast(w))
         /\ IF stm.cmd.er = STM32_CMD_ER
            THEN /\ Len(w) = P + 2
                 /\ w[1] = P - 1
                 /\ \A i \in 1..P : w[i + 1] = s + i - 1
            ELSE /\ Len(w) = 2 * P + 3
                 /\ w[1] = (P - 1) \div 256 /\ w[2] = (P - 1) % 256
                 /\ \A i \in 1..P : /\ w[2 * i + 1] = (s + i - 1) \div 256
                                    /\ w[2 * i + 2] = (s + i - 1) % 256

\* C33 within the range of a byte: the same holds for the extended opcodes,
\* and for the legacy opcode when no page of the batch is above 255
C33_ByteRange ==
    (PagesWritten /\ (stm.cmd.er = STM32_CMD_ER => call.spage + call.len <= 256))
       => C33_Original

\* a legacy batch within the range and an extended batch have been written
C33_WitnessLegacy ==
    PagesWritten /\ stm.cmd.er = STM32_CMD_ER /\ call.spage = 1 /\ call.len = 2
C33_WitnessExt ==
    PagesWritten /\ stm.cmd.er # STM32_CMD_ER /\ call.spage > 0 /\ call.len = 512

\* ---------------------------------------------------------------- C34
RawCall == call.op = "run_raw_code"
RawWrites == SelectSeq(wire, IsWrite)
\* chunks of 256 bytes, the last one shorter, cover size bytes
RawChunks(size) == (size + 255) \div 256
\* write i of a call with target t and n bytes of code is the one due when
\* nothing fails: for chunk j the write command, the address t + 256 (j - 1)
\* and a frame that holds the bytes of the chunk after its length byte, and
\* after the last chunk the Go command and the address t
RawExpected(t, n, i, b) ==
    LET size == n + 8
        N == RawChunks(size)
        j == (i + 2) \div 3
        lo == 256 * (j - 1)
        hi == IF 256 * j < size THEN 256 * j ELSE size
    IN IF i = 3 * N + 1 THEN b = <<stm.cmd.go, Xor(stm.cmd.go, 255)>>
       ELSE IF i = 3 * N + 2 THEN b = AddrFrame(t)
       ELSE IF i % 3 = 1 THEN b = <<stm.cmd.wm, Xor(stm.cmd.wm, 255)>>
       ELSE IF i % 3 = 2 THEN b = AddrFrame(t + lo)
       ELSE /\ Len(b) <= 256 + 2
            /\ Len(b) >= hi - lo + 2
            /\ SubSeq(b, 2, hi - lo + 1) = SubSeq(RawMem(t, n), lo + 1, hi)

\* C34: an unaligned target returns Unknown with nothing on the wire. With an
\* aligned target the writes are, in order, those of the chunks of at most 256
\* bytes at target, target + 256, ..., then those of Go to target; every write
\* but the first follows an ACK and a write that failed is the last, so Go is
\* sent only after every chunk was acknowledged; a call that returns before
\* all chunks were written and acknowledged returns Unknown.
C34_RawCode ==
    RawCall =>
      LET t == call.args[1]
          n == call.args[2]
          W == RawWrites
          N == RawChunks(n + 8)
      IN IF t % 4 # 0
         THEN wire = <<>> /\ stack = <<>> /\ res = "UNKNOWN"
         ELSE /\ Len(W) <= 3 * N + 2
              /\ \A i \in 1..Len(W) : RawExpected(t, n, i, W[i].b)
              /\ \A i \in 1..(Len(W) - 1) : W[i].st = "OK"
              /\ \A i \in 2..Len(wire) :
                    IsWrite(wire[i]) => wire[i - 1] = REvent(1, <<STM32_ACK>>, "OK")
              /\ stack = <<>> =>
                    IF Len(W) > 3 * N THEN res \in {"OK", "UNKNOWN"}
                    ELSE IF /\ Len(W) = 3 * N
                            /\ wire[Len(wire)] = REvent(1, <<STM32_ACK>>, "OK")
                         THEN res = "NO_CMD" /\ stm.cmd.go = STM32_CMD_ERR
                         ELSE res = "UNKNOWN"

\* code of 504 bytes was written in two chunks and Go was acknowledged
C34_Witness ==
    /\ RawCall /\ call.args[2] = 504 /\ call.args[1] % 4 = 0
    /\ Len(RawWrites) = 8 /\ stack = <<>> /\ res = "OK"

\* the second chunk was not acknowledged and the call has returned Unknown
C34_WitnessFail ==
    /\ RawCall /\ call.args[2] = 250 /\ Len(RawWrites) = 6
    /\ wire[Len(wire)] = REvent(1, <<STM32_NACK>>, "OK")
    /\ stack = <<>> /\ res = "UNKNOWN"

\* an unaligned target
C34_WitnessUnaligned ==
    RawCall /\ call.args[1] % 4 # 0 /\ stack = <<>> /\ res = "UNKNOWN"

\* ---------------------------------------------------------------- C35
\* C35 as stated: the reader thread reads no byte from the descriptor while
\* m_direct is true, and no byte sent to an open session reaches the console
C35_Original ==
    /\ serial.stolen = 0
    /\ \A i \in DOMAIN serial.console : serial.console[i] # "r"

\* C35, what holds: every byte sent waits on the descriptor or was read
\* once, by the session or by the thread
C35_NoByteLost ==
    Len(serial.engine) + Len(serial.console) + Len(serial.fd) = serial.sent

\* the thread went from the test of m_direct into select, the session was
\* opened, and a reply byte was read by the thread
C35_Stolen ==
    serial.session = "open" /\ serial.m_direct /\ "r" \in {serial.console[i] : i \in DOMAIN serial.console}

\* ---------------------------------------------------------------- C36
\* a public operation that returns stm32_err_t has returned
ErrReturned == Returned /\ call.op \notin {"none", "init"}
NackRead == REvent(1, <<STM32_NACK>>, "OK")

\* C36: a public operation returns OK, NO_CMD or UNKNOWN, never NACK; a NACK
\* read from the device ends the operation, which returns UNKNOWN
C36_NoNack ==
    /\ ErrReturned => res \in {"OK", "NO_CMD", "UNKNOWN"}
    /\ call.op \notin {"none", "init"} =>
          \A i \in DOMAIN wire :
             wire[i] = NackRead => /\ i = Len(wire)
                                   /\ Returned => res = "UNKNOWN"

\* the device answered the opcode frame with NACK, and a later frame with
\* NACK, and the operation has returned
C36_Witness ==
    /\ ErrReturned /\ Len(wire) = 2 /\ wire[2] = NackRead /\ res = "UNKNOWN"
C36_WitnessLater ==
    /\ ErrReturned /\ Len(wire) >= 4 /\ wire[Len(wire)] = NackRead /\ res = "UNKNOWN"
    /\ call.op = "erase"

\* ---------------------------------------------------------------- C37
\* C37: stm32_read_memory and stm32_write_memory called with len = 0 have
\* returned OK with no transfer on the port, whatever the address and the
\* command map
C37_ZeroLen ==
    (call.op \in {"read_memory", "write_memory"} /\ call.len = 0)
       => stack = <<>> /\ res = "OK" /\ wire = <<>>

\* a read of 0 bytes without the read command, and a write of 0 bytes at an
\* unaligned address without the write command
C37_Witness ==
    /\ call.op = "read_memory" /\ call.len = 0 /\ stm.cmd.rm = STM32_CMD_ERR
    /\ res = "OK"
C37_WitnessWrite ==
    /\ call.op = "write_memory" /\ call.len = 0 /\ call.address % 4 # 0
    /\ stm.cmd.wm = STM32_CMD_ERR /\ res = "OK"

\* ---------------------------------------------------------------- C38
\* the request names no page, or pages beyond STM32_MAX_PAGES
EraseVoid ==
    /\ call.op = "erase"
    /\ \/ call.args[2] = 0
       \/ call.args[1] > STM32_MAX_PAGES
       \/ (call.args[2] # STM32_MASS_ERASE /\ call.args[1] + call.args[2] > STM32_MAX_PAGES)

\* C38: such a request has returned OK with nothing sent, whether or not the
\* bootloader has an erase command
C38_VoidErase == EraseVoid => stack = <<>> /\ res = "OK" /\ wire = <<>>

\* pages = 0, and a range beyond the limit, on a session without an erase
\* command
C38_Witness ==
    EraseVoid /\ call.args[2] = 0 /\ stm.cmd.er = STM32_CMD_ERR /\ res = "OK"
C38_WitnessRange ==
    /\ EraseVoid /\ call.args[2] # 0 /\ call.args[1] <= STM32_MAX_PAGES
    /\ stm.cmd.er = STM32_CMD_ERR /\ res = "OK"

\* ---------------------------------------------------------------- C39
LegacyWritten == PagesWritten /\ stm.cmd.er = STM32_CMD_ER

\* C39: the count byte and the page bytes of a legacy payload are pages - 1
\* and the page numbers modulo 256; the batch handed to the legacy path has
\* up to 512 pages, and for a page-range request its pages go up to
\* STM32_MAX_PAGES
C39_LegacyBytes ==
    LegacyWritten =>
      LET w == BatchPayload
          s == call.spage
          P == call.len
      IN /\ Len(w) = P + 2
         /\ w[1] = (P - 1) % 256
         /\ \A i \in 1..P : w[i + 1] = (s + i - 1) % 256
         /\ P >= 1 /\ P <= 512
         /\ call.args[2] # STM32_MASS_ERASE => s + P <= STM32_MAX_PAGES

\* a legacy batch of 512 pages: the count byte is 255 and pages above 255
\* are named by their low byte
C39_Witness ==
    /\ LegacyWritten /\ call.len = 512 /\ call.spage + call.len > 256
    /\ BatchPayload[1] = 255

\* ---------------------------------------------------------------- C40
\* stm32_guess_len_cmd has returned OK to stm32_init without a resync: the
\* command was sent once
GlDirect ==
    /\ Top \in {"init_get", "init_gid"} /\ rv = "OK"
    /\ Cardinality(GlFrames) = 1
\* the reads that took the reply: two on a BYTE port, one on a frame port
GlReads == IF "BYTE" \in port.flags THEN 2 ELSE 1
\* the reply of L + 2 bytes is in the buffer from its first place on, and
\* the reads that follow the command's ACK delivered just these bytes
GlSame ==
    GlDirect =>
      LET L == buf[1]
          n == Len(wire)
      IN /\ Len(buf) = L + 2
         /\ buf = Known(gl.cmd)
         /\ n > GlReads /\ IsAck(wire[n - GlReads])
         /\ IF "BYTE" \in port.flags
            THEN /\ wire[n - 1] = REvent(1, <<L>>, "OK")
                 /\ wire[n] = REvent(L + 1, Tail(buf), "OK")
            ELSE wire[n] = REvent(L + 2, buf, "OK")
\* the caller goes on to parse the reply
GlParsed == Top = "init_get" \/ U8(buf[1] + 1) >= 2
\* the caller reads nothing more of the reply and enters its wait for the ACK
GlAckNext ==
    GlDirect /\ GlParsed =>
      /\ wire' = wire
      /\ stack' = <<"get_ack", IF Top = "init_get" THEN "init_get_ack" ELSE "init_gid_ack">>
\* the wait for the ACK reads one byte at a time
GlAckRead ==
    Top = "get_ack" /\ wire' # wire =>
      /\ Len(wire') = Len(wire) + 1
      /\ wire'[Len(wire')].k = "R" /\ wire'[Len(wire')].n = 1

\* C40: for a reply whose first byte is L, stm32_guess_len_cmd reads the same
\* L + 2 bytes into the same places of the buffer on a BYTE port (one byte,
\* then L + 1 bytes) as on a frame port whose guess is right (one read of
\* L + 2 bytes); the closing ACK is not among them and is read by the
\* caller's wait for an acknowledgement
C40_SameReply == []GlSame /\ [][GlAckNext /\ GlAckRead]_vars

\* a BYTE port took the reply 01 04 10 in two reads
C40_Witness ==
    /\ GlDirect /\ "BYTE" \in port.flags /\ buf = <<1, 4, 16>>
\* a frame port took the same reply in one read
C40_WitnessFrame ==
    /\ GlDirect /\ "BYTE" \notin port.flags /\ buf = <<1, 4, 16>>
\* the closing ACK of the reply has been read by the caller's wait
C40_WitnessAck ==
    /\ Top = "init_gid_ack" /\ rv = "OK" /\ buf = <<1, 4, 16>>
    /\ IsAck(LastEvent)


====
